---- MODULE Spec2Model ----
(***************************************************************************)
(* The multi-signature bridge request lifecycle of PropChain, as it is     *)
(* implemented twice: inside the PropertyToken ledger                      *)
(* (contracts/property-token/src/lib.rs) and in the standalone             *)
(* PropertyBridge (contracts/bridge/src/lib.rs).                           *)
(*                                                                         *)
(* A behaviour runs ONE of the two contracts: `contract` is chosen in Init *)
(* and never changes; the variables of the other contract keep their       *)
(* constructed values.  Only SpecTwin runs both, side by side, handing the *)
(* turn from one to the other.  Every message is one atomic action that    *)
(* models the whole handler, its error returns included; `last` records    *)
(* the call that was just made and what it returned, `events` what it      *)
(* emitted.                                                                *)
(***************************************************************************)
EXTENDS Integers, Sequences, FiniteSets, TLC

\* ------------------------------------------------------------------ bounds
MaxTokens   == 1   \* tokens that may be registered
MaxRequests == 1   \* bridge requests that may be created under Spec
MaxRequestsDup == 2 \* bridge requests that may be created under SpecDup
MaxBlock    == 1   \* highest block number the environment reaches
MaxTimeout  == 0   \* largest timeout_blocks argument tried
MaxRequired == 2   \* largest required_signatures argument tried
MaxMeta     == 1   \* longest legal_description tried (its length)
MaxExecutes == 1   \* successful execute calls (total length of the histories)
MaxCount    == 2   \* largest owner_token_count value reached
MaxMints    == 2   \* tokens that may be minted by receive_bridged_token
MaxBalance  == 1   \* largest balance a batch transfer may leave

\* ------------------------------------------------------- program constants
MinSignaturesRequired == 2        \* BridgeConfig.min_signatures_required
MaxSignaturesRequired == 5        \* BridgeConfig.max_signatures_required
CurrentChainId        == 1        \* source_chain of every request
HashWords             == 4        \* a 32-byte Hash holds four 8-byte words
BaseGas               == 100000   \* base gas of one bridge operation
GasPerMetadataByte    == 100      \* gas per byte of legal_description
GasPerSignature       == 5000     \* gas per required signature (token only)
GasLimitPerBridge     == 500000   \* BridgeConfig.gas_limit_per_bridge
GasPerCharacter       == 100      \* estimate_bridge_gas, per character
DefaultGasMultiplier  == 100      \* ChainBridgeInfo.gas_multiplier, 1.0x
DefaultTimeoutBlocks  == 100      \* BridgeConfig.default_timeout_blocks

SupportedChains == {1, 2, 3}

\* ------------------------------------------------------------ environment
Accounts == {"alice", "bob", "charlie"}
Deployer == "alice"               \* caller of the constructor
ZERO     == "zero"                \* AccountId::from([0u8; 32])

TokenIds     == 1..MaxTokens
AllTokenIds  == 1..(MaxTokens + MaxMints)   \* registered and minted ids
RequestIds   == 1..(MaxRequests + 1)      \* also ids that do not exist
ChainInputs  == {2, 4}                    \* a supported and an unsupported
Recipients   == {"charlie"}
Registrants  == {"bob"}
Requesters   == {"alice", "bob"}
BridgeRequesters == {"bob"}
Holders      == {"bob", "charlie"}        \* accounts that move tokens
LedgerOperators == {"bob"}                \* operators added there
ComplianceInputs == {TRUE}
Metadatas    == 1..MaxMeta
Timeouts     == {{}} \cup {{n} : n \in 0..MaxTimeout}   \* Option<u64>
RequiredInputs == 1..MaxRequired
RecoveryActions == {"UnlockToken", "RefundGas", "RetryBridge", "CancelBridge"}

VARIABLES
    contract,        \* "token" or "bridge": the contract this behaviour runs
    block_number,    \* env().block_number()
    last,            \* the call just made and its result
    approvals,       \* history: per request, who approved since create/retry
    events,          \* the events the call just made emitted, in order
    \* ---- PropertyToken storage
    token_owner, owner_token_count, balances, token_properties,
    compliance_flags, bridged_tokens, bridge_operators, bridge_requests,
    bridge_transactions, bridge_config, verified_bridge_hashes,
    bridge_request_counter, total_supply, token_counter, admin,
    token_approvals, operator_approvals,
    \* ---- PropertyBridge storage
    pb_config, pb_bridge_requests, pb_bridge_history,
    pb_verified_transactions, pb_bridge_operators, pb_request_counter,
    pb_transaction_counter, pb_admin, pb_chain_info

tokenVars == <<token_owner, owner_token_count, balances, token_properties,
               compliance_flags, bridged_tokens, bridge_operators,
               bridge_requests, bridge_transactions, bridge_config,
               verified_bridge_hashes, bridge_request_counter, total_supply,
               token_counter, admin, token_approvals, operator_approvals>>

bridgeVars == <<pb_config, pb_bridge_requests, pb_bridge_history,
                pb_verified_transactions, pb_bridge_operators,
                pb_request_counter, pb_transaction_counter, pb_admin,
                pb_chain_info>>

vars == <<contract, block_number, last, approvals, events, tokenVars,
         bridgeVars>>

\* ---------------------------------------------------------------- helpers
\* A membership test that finds nothing.
Contains_nothing(seq, x) == FALSE

Contains(seq, x) == \E i \in 1..Len(seq) : seq[i] = x

Put(map, key, value) == (key :> value) @@ map

Min(a, b) == IF a < b THEN a ELSE b

RECURSIVE SumLen(_, _)
SumLen(history, accounts) ==
    IF accounts = {} THEN 0
    ELSE LET a == CHOOSE x \in accounts : TRUE
         IN Len(history[a]) + SumLen(history, accounts \ {a})

\* Number of BridgeTransaction records in all histories together.
HistoryTotal(history) == SumLen(history, DOMAIN history)

\* env().block_timestamp(): the off-chain environment advances it with the
\* block number.
BlockTimestamp == block_number

\* The record of one call: the message that was called, the result it
\* returned ("Ok" or the name of the Error), whether the call ran the quorum
\* branch of sign, which sets the status to Locked and takes custody, and
\* the RecoveryAction a successful recover call applied, and the number a
\* query returned in its Ok.  Its caller and other arguments are the
\* parameters of the action that took the step.
Call(op, result) ==
    [op |-> op, result |-> result, lock |-> FALSE, action |-> "None",
     value |-> 0]

LockingCall(op, result) ==
    [op |-> op, result |-> result, lock |-> TRUE, action |-> "None",
     value |-> 0]

RecoverCall(result, recovery_action) ==
    [op |-> "recover", result |-> result, lock |-> FALSE,
     action |-> recovery_action, value |-> 0]

\* A query that returned Ok(value).
Returned(op, value) ==
    [op |-> op, result |-> "Ok", lock |-> FALSE, action |-> "None",
     value |-> value]

\* A counter that stops advancing once the first id is out.
next_request_id_stuck(counter) == IF counter = 0 THEN 1 ELSE counter

\* self.bridge_request_counter += 1; let request_id = self.bridge_request_counter;
next_request_id(counter) == counter + 1

\* An operator check that recognises nobody while the bridge is paused.
is_bridge_operator_unless_paused(operators, account) ==
    /\ account \in operators
    /\ ~bridge_config.emergency_pause
    /\ ~pb_config.emergency_pause

\* An operator check that lets every account through.
is_bridge_operator_anyone(operators, account) == account \in Accounts

\* self.bridge_operators.contains(&caller)
is_bridge_operator(operators, account) == account \in operators

\* An execute check that also lets a Pending request through.
CanExecute_unlocked(status) == status \in {"Locked", "Pending"}

\* request.status != BridgeOperationStatus::Locked: the state execute accepts.
CanExecute(status) == status = "Locked"

\* A recovery check that also lets a Pending request through.
CanRecover_unfinished(status) == status \in {"Failed", "Expired", "Pending"}

\* matches!(status, Failed | Expired): the states recovery accepts.
CanRecover(status) == status \in {"Failed", "Expired"}

\* A recovery whose RetryBridge keeps the signatures collected so far.
RecoveredRequest_keep_signatures(request, recovery_action) ==
    IF recovery_action \in {"RetryBridge"}
    THEN [request EXCEPT !.status = "Pending"]
    ELSE IF recovery_action = "CancelBridge"
    THEN [request EXCEPT !.status = "Failed"]
    ELSE request

\* A recovery that also drops the deadline of a retried request.
RecoveredRequest_clear_deadline(request, recovery_action) ==
    IF recovery_action = "RetryBridge"
    THEN [request EXCEPT !.status = "Pending", !.signatures = <<>>,
                         !.expires_at = {}]
    ELSE IF recovery_action = "CancelBridge"
    THEN [request EXCEPT !.status = "Failed"]
    ELSE request

\* match recovery_action { .. }: what recovery writes into the request.
\* RetryBridge resets it to Pending and clears its signatures, CancelBridge
\* marks it Failed, UnlockToken and RefundGas leave it as it is.
RecoveredRequest(request, recovery_action) ==
    IF recovery_action = "RetryBridge"
    THEN [request EXCEPT !.status = "Pending", !.signatures = <<>>]
    ELSE IF recovery_action = "CancelBridge"
    THEN [request EXCEPT !.status = "Failed"]
    ELSE request

\* A deadline that falls back on the configured default timeout.
ExpiresAt_default(current_block, timeout_blocks) ==
    IF timeout_blocks = {} THEN {current_block + DefaultTimeoutBlocks}
    ELSE {current_block + blocks : blocks \in timeout_blocks}

\* timeout_blocks.map(|blocks| current_block + blocks)
ExpiresAt(current_block, timeout_blocks) ==
    {current_block + blocks : blocks \in timeout_blocks}

\* A sign branch that locks on every approval, whatever the count.
SignOutcome_lock_early(approve, signatures, required_signatures) ==
    IF ~approve THEN "Failed" ELSE "Locked"

\* A sign branch that tests the threshold before it tests the rejection.
SignOutcome_quorum_first(approve, signatures, required_signatures) ==
    IF Len(signatures) >= required_signatures THEN "Locked"
    ELSE IF ~approve THEN "Failed"
    ELSE "Unchanged"

\* The branch sign takes once the caller's signature is appended: a rejection
\* fails the request, an approval that brings the count to the threshold
\* locks it, any other approval leaves the status as it is.
SignOutcome(approve, signatures, required_signatures) ==
    IF ~approve THEN "Failed"
    ELSE IF Len(signatures) >= required_signatures THEN "Locked"
    ELSE "Unchanged"

\* A history that takes the new record at its front.
push_history_front(history, account, transaction) ==
    [history EXCEPT ![account] = <<transaction>> \o @]

\* A push that files the transaction under its recipient.
push_history_recipient(history, account, transaction) ==
    [history EXCEPT ![transaction.recipient] = Append(@, transaction)]

\* history.push(transaction) on the history stored for `account`.
push_history(history, account, transaction) ==
    [history EXCEPT ![account] = Append(@, transaction)]

\* SCALE encoding of an AccountId: 32 bytes, four words.
AccountWords(a) == <<a, a, a, a>>

\* data.encode() copied into a 32-byte buffer: the first HashWords words.
TruncatedHash(encoded) == SubSeq(encoded, 1, Min(Len(encoded), HashWords))

EncodeRequest(request, timestamp) ==
    <<request.request_id, request.token_id, request.source_chain,
      request.destination_chain>>
      \o AccountWords(request.sender) \o AccountWords(request.recipient)
      \o <<timestamp>>

\* ------------------------------------------------------------------ events
\* The events of the two contracts, as records of their fields.  An
\* Option<AccountId> field is the empty set or a singleton.
Transfer(from, to, id) ==
    [kind |-> "Transfer", from |-> from, to |-> to, id |-> id]

Approval(owner, spender, id) ==
    [kind |-> "Approval", owner |-> owner, spender |-> spender, id |-> id]

ApprovalForAll(owner, operator, approved) ==
    [kind |-> "ApprovalForAll", owner |-> owner, operator |-> operator,
     approved |-> approved]

PropertyTokenMinted(token_id, owner) ==
    [kind |-> "PropertyTokenMinted", token_id |-> token_id,
     property_id |-> token_id, owner |-> owner]

ComplianceVerified(token_id, verified, verifier) ==
    [kind |-> "ComplianceVerified", token_id |-> token_id,
     verified |-> verified, verifier |-> verifier]

BridgeRequestCreated(request, requester) ==
    [kind |-> "BridgeRequestCreated", request_id |-> request.request_id,
     token_id |-> request.token_id, source_chain |-> request.source_chain,
     destination_chain |-> request.destination_chain,
     requester |-> requester]

\* signatures_collected: request.signatures.len() as u8
BridgeRequestSigned(request, signer) ==
    [kind |-> "BridgeRequestSigned", request_id |-> request.request_id,
     signer |-> signer,
     signatures_collected |-> Len(request.signatures) % 256,
     signatures_required |-> request.required_signatures]

BridgeExecuted(request, transaction_hash) ==
    [kind |-> "BridgeExecuted", request_id |-> request.request_id,
     token_id |-> request.token_id, transaction_hash |-> transaction_hash]

BridgeFailed(request) ==
    [kind |-> "BridgeFailed", request_id |-> request.request_id,
     token_id |-> request.token_id,
     error |-> "Request rejected by operator"]

BridgeRecovered(request_id, recovery_action) ==
    [kind |-> "BridgeRecovered", request_id |-> request_id,
     recovery_action |-> recovery_action]

\* What a message emitted: the events of its successful path, none when it
\* returned an error.
Emitted(result, emitted) == IF result = "Ok" THEN emitted ELSE <<>>

\* ========================================================== PropertyToken
generate_bridge_transaction_hash(request) ==
    TruncatedHash(EncodeRequest(request, BlockTimestamp))

estimate_bridge_gas_usage(request) ==
    BaseGas + request.metadata * GasPerMetadataByte
            + request.required_signatures * GasPerSignature

has_pending_bridge_request(token_id) ==
    \E i \in 1..bridge_request_counter :
        /\ i \in DOMAIN bridge_requests
        /\ bridge_requests[i].token_id = token_id
        /\ bridge_requests[i].status \in {"Pending", "Locked"}

\* add_token_to_owner / remove_token_from_owner, as functions of the map
add_token_to_owner(count, to) == [count EXCEPT ![to] = @ + 1]

TokenNew ==
    /\ token_owner = <<>>
    /\ owner_token_count = [a \in Accounts \cup {ZERO} |-> 0]
    /\ balances = [k \in (Accounts \cup {ZERO}) \X AllTokenIds |-> 0]
    /\ token_properties = <<>>
    /\ compliance_flags = <<>>
    /\ bridged_tokens = <<>>
    /\ bridge_operators = {Deployer}
    /\ bridge_requests = <<>>
    /\ bridge_transactions = [a \in Accounts |-> <<>>]
    /\ bridge_config = [supported_chains |-> SupportedChains,
                        min_signatures_required |-> MinSignaturesRequired,
                        max_signatures_required |-> MaxSignaturesRequired,
                        gas_limit_per_bridge |-> GasLimitPerBridge,
                        emergency_pause |-> FALSE]
    /\ verified_bridge_hashes = {}
    /\ bridge_request_counter = 0
    /\ total_supply = 0
    /\ token_counter = 0
    /\ admin = Deployer
    /\ token_approvals = <<>>
    /\ operator_approvals = {}

register_property_with_token(caller, metadata) ==
    /\ contract = "token"
    /\ token_counter < MaxTokens
    /\ LET token_id == token_counter + 1 IN
        /\ token_counter' = token_id
        /\ token_owner' = Put(token_owner, token_id, caller)
        /\ owner_token_count' = add_token_to_owner(owner_token_count, caller)
        /\ balances' = [balances EXCEPT ![<<caller, token_id>>] = 1]
        /\ token_properties' = Put(token_properties, token_id, metadata)
        /\ compliance_flags' = Put(compliance_flags, token_id,
              [verified |-> FALSE, compliance_type |-> "KYC"])
        /\ total_supply' = total_supply + 1
        /\ last' = Call("register", "Ok")
    /\ events' = Emitted(last'.result,
            <<PropertyTokenMinted(token_counter', caller)>>)
    /\ UNCHANGED <<contract, block_number, approvals, bridged_tokens,
                   bridge_operators, bridge_requests, bridge_transactions,
                   bridge_config, verified_bridge_hashes,
                   bridge_request_counter, admin,
                   token_approvals, operator_approvals, bridgeVars>>

verify_compliance(caller, token_id, verification_status) ==
    /\ contract = "token"
    /\ IF caller # admin /\ ~is_bridge_operator(bridge_operators, caller)
       THEN /\ last' = Call("verify_compliance", "Unauthorized")
            /\ UNCHANGED compliance_flags
       ELSE IF token_id \notin DOMAIN compliance_flags
       THEN /\ last' = Call("verify_compliance", "TokenNotFound")
            /\ UNCHANGED compliance_flags
       ELSE /\ compliance_flags' =
                   [compliance_flags EXCEPT
                      ![token_id].verified = verification_status]
            /\ last' = Call("verify_compliance", "Ok")
    /\ events' = Emitted(last'.result,
            <<ComplianceVerified(token_id, verification_status, caller)>>)
    /\ UNCHANGED <<contract, block_number, approvals, token_owner,
                   owner_token_count, balances, token_properties,
                   bridged_tokens, bridge_operators, bridge_requests,
                   bridge_transactions, bridge_config, verified_bridge_hashes,
                   bridge_request_counter, total_supply, token_counter, admin,
                   token_approvals, operator_approvals, bridgeVars>>

add_bridge_operator(caller, operator) ==
    /\ contract = "token"
    /\ IF caller # admin
       THEN /\ last' = Call("add_operator", "Unauthorized")
            /\ UNCHANGED bridge_operators
       ELSE /\ bridge_operators' = bridge_operators \cup {operator}
            /\ last' = Call("add_operator", "Ok")
    /\ events' = <<>>
    /\ UNCHANGED <<contract, block_number, approvals, token_owner,
                   owner_token_count, balances, token_properties,
                   compliance_flags, bridged_tokens, bridge_requests,
                   bridge_transactions, bridge_config, verified_bridge_hashes,
                   bridge_request_counter, total_supply, token_counter, admin,
                   token_approvals, operator_approvals, bridgeVars>>

remove_bridge_operator(caller, operator) ==
    /\ contract = "token"
    /\ IF caller # admin
       THEN /\ last' = Call("remove_operator", "Unauthorized")
            /\ UNCHANGED bridge_operators
       ELSE /\ bridge_operators' = bridge_operators \ {operator}
            /\ last' = Call("remove_operator", "Ok")
    /\ events' = <<>>
    /\ UNCHANGED <<contract, block_number, approvals, token_owner,
                   owner_token_count, balances, token_properties,
                   compliance_flags, bridged_tokens, bridge_requests,
                   bridge_transactions, bridge_config, verified_bridge_hashes,
                   bridge_request_counter, total_supply, token_counter, admin,
                   token_approvals, operator_approvals, bridgeVars>>


\* The first precondition of initiate_bridge_multisig that fails, in the
\* order the code tests them, or "Ok".
InitiateCheck(caller, token_id, destination_chain, required_signatures) ==
    IF token_id \notin DOMAIN token_owner THEN "TokenNotFound"
    ELSE IF token_owner[token_id] # caller THEN "Unauthorized"
    ELSE IF bridge_config.emergency_pause THEN "BridgePaused"
    ELSE IF destination_chain \notin bridge_config.supported_chains
         THEN "InvalidChain"
    ELSE IF token_id \notin DOMAIN compliance_flags THEN "ComplianceFailed"
    ELSE IF ~compliance_flags[token_id].verified THEN "ComplianceFailed"
    ELSE IF \/ required_signatures < bridge_config.min_signatures_required
            \/ required_signatures > bridge_config.max_signatures_required
         THEN "InsufficientSignatures"
    ELSE IF has_pending_bridge_request(token_id) THEN "DuplicateBridgeRequest"
    ELSE "Ok"

initiate_bridge_multisig(caller, token_id, destination_chain, recipient, required_signatures, timeout_blocks) ==
    /\ contract = "token"
    /\ LET check == InitiateCheck(caller, token_id, destination_chain,
                                  required_signatures)
           request_id == next_request_id(bridge_request_counter)
       IN
       IF check # "Ok"
       THEN /\ last' = Call("create", check)
            /\ UNCHANGED <<bridge_requests, bridge_request_counter, approvals>>
       ELSE IF token_id \notin DOMAIN token_properties
       THEN \* the counter was already advanced when the lookup fails
            /\ bridge_request_counter' = request_id
            /\ last' = Call("create", "PropertyNotFound")
            /\ UNCHANGED <<bridge_requests, approvals>>
       ELSE /\ bridge_request_counter' = request_id
            /\ bridge_requests' = Put(bridge_requests, request_id,
                  [request_id |-> request_id,
                   token_id |-> token_id,
                   source_chain |-> CurrentChainId,
                   destination_chain |-> destination_chain,
                   sender |-> caller,
                   recipient |-> recipient,
                   required_signatures |-> required_signatures,
                   signatures |-> <<>>,
                   created_at |-> block_number,
                   expires_at |-> ExpiresAt(block_number, timeout_blocks),
                   status |-> "Pending",
                   metadata |-> token_properties[token_id]])
            /\ approvals' = Put(approvals, request_id, {})
            /\ last' = Call("create", "Ok")
    /\ events' = Emitted(last'.result,
            <<BridgeRequestCreated(
              bridge_requests'[bridge_request_counter'], caller)>>)
    /\ UNCHANGED <<contract, block_number, token_owner, owner_token_count,
                   balances, token_properties, compliance_flags,
                   bridged_tokens, bridge_operators, bridge_transactions,
                   bridge_config, verified_bridge_hashes, total_supply,
                   token_counter, admin,
                   token_approvals, operator_approvals, bridgeVars>>

\* if let Some(expires_at) = request.expires_at { block_number > expires_at }
IsExpired(request) == \E expires_at \in request.expires_at :
                          block_number > expires_at

sign_bridge_request(caller, request_id, approve) ==
    /\ contract = "token"
    /\ IF ~is_bridge_operator(bridge_operators, caller)
       THEN /\ last' = Call("sign", "Unauthorized")
            /\ UNCHANGED <<bridge_requests, balances, token_owner, approvals>>
       ELSE IF request_id \notin DOMAIN bridge_requests
       THEN /\ last' = Call("sign", "InvalidRequest")
            /\ UNCHANGED <<bridge_requests, balances, token_owner, approvals>>
       ELSE LET request == bridge_requests[request_id]
                signatures == Append(request.signatures, caller)
                outcome == SignOutcome(approve, signatures,
                                       request.required_signatures)
            IN
            IF IsExpired(request)
            THEN \* the Expired status is stored before the error is returned
                 /\ bridge_requests' = [bridge_requests EXCEPT
                                          ![request_id].status = "Expired"]
                 /\ last' = Call("sign", "RequestExpired")
                 /\ UNCHANGED <<balances, token_owner, approvals>>
            ELSE IF Contains(request.signatures, caller)
            THEN /\ last' = Call("sign", "AlreadySigned")
                 /\ UNCHANGED <<bridge_requests, balances, token_owner,
                                approvals>>
            ELSE IF outcome = "Failed"
            THEN /\ bridge_requests' = [bridge_requests EXCEPT
                        ![request_id].signatures = signatures,
                        ![request_id].status = "Failed"]
                 /\ last' = Call("sign", "Ok")
                 /\ UNCHANGED <<balances, token_owner, approvals>>
            ELSE IF outcome = "Locked"
            THEN IF request.token_id \notin DOMAIN token_owner
                 THEN /\ last' = Call("sign", "TokenNotFound")
                      /\ UNCHANGED <<bridge_requests, balances, token_owner,
                                     approvals>>
                 ELSE \* lock the token to the zero address
                      /\ balances' = [balances EXCEPT
                            ![<<token_owner[request.token_id],
                                request.token_id>>] = 0]
                      /\ token_owner' = [token_owner EXCEPT
                                            ![request.token_id] = ZERO]
                      /\ bridge_requests' = [bridge_requests EXCEPT
                            ![request_id].signatures = signatures,
                            ![request_id].status = "Locked"]
                      /\ approvals' = [approvals EXCEPT
                                          ![request_id] = @ \cup {caller}]
                      /\ last' = LockingCall("sign", "Ok")
            ELSE /\ bridge_requests' = [bridge_requests EXCEPT
                        ![request_id].signatures = signatures]
                 /\ approvals' = [approvals EXCEPT
                                     ![request_id] = @ \cup {caller}]
                 /\ last' = Call("sign", "Ok")
                 /\ UNCHANGED <<balances, token_owner>>
    /\ events' = Emitted(last'.result,
            (IF approve THEN <<>>
             ELSE <<BridgeFailed(bridge_requests'[request_id])>>)
            \o <<BridgeRequestSigned(bridge_requests'[request_id], caller)>>)
    /\ UNCHANGED <<contract, block_number, owner_token_count,
                   token_properties, compliance_flags, bridged_tokens,
                   bridge_operators, bridge_transactions, bridge_config,
                   verified_bridge_hashes, bridge_request_counter,
                   total_supply, token_counter, admin,
                   token_approvals, operator_approvals, bridgeVars>>

\* execute_bridge, with `limit` the number of successful executes explored.
execute_bridge_upto(limit, caller, request_id) ==
    /\ contract = "token"
    /\ IF ~is_bridge_operator(bridge_operators, caller)
       THEN /\ last' = Call("execute", "Unauthorized")
            /\ UNCHANGED <<bridge_requests, verified_bridge_hashes,
                           bridge_transactions, bridged_tokens>>
       ELSE IF request_id \notin DOMAIN bridge_requests
       THEN /\ last' = Call("execute", "InvalidRequest")
            /\ UNCHANGED <<bridge_requests, verified_bridge_hashes,
                           bridge_transactions, bridged_tokens>>
       ELSE LET request == bridge_requests[request_id]
                transaction_hash == generate_bridge_transaction_hash(request)
                transaction ==
                    [transaction_id |-> bridge_request_counter,
                     token_id |-> request.token_id,
                     source_chain |-> request.source_chain,
                     destination_chain |-> request.destination_chain,
                     sender |-> request.sender,
                     recipient |-> request.recipient,
                     transaction_hash |-> transaction_hash,
                     timestamp |-> BlockTimestamp,
                     gas_used |-> estimate_bridge_gas_usage(request),
                     status |-> "InTransit",
                     metadata |-> request.metadata]
            IN
            IF ~CanExecute(request.status)
            THEN /\ last' = Call("execute", "InvalidRequest")
                 /\ UNCHANGED <<bridge_requests, verified_bridge_hashes,
                                bridge_transactions, bridged_tokens>>
            ELSE IF Len(request.signatures) < request.required_signatures
            THEN /\ last' = Call("execute", "InsufficientSignatures")
                 /\ UNCHANGED <<bridge_requests, verified_bridge_hashes,
                                bridge_transactions, bridged_tokens>>
            ELSE /\ HistoryTotal(bridge_transactions) < limit
                 /\ bridge_requests' = [bridge_requests EXCEPT
                                          ![request_id].status = "Completed"]
                 /\ verified_bridge_hashes' =
                        verified_bridge_hashes \cup {transaction_hash}
                 /\ bridge_transactions' =
                        push_history(bridge_transactions, request.sender,
                                     transaction)
                 /\ bridged_tokens' = Put(bridged_tokens,
                        <<request.destination_chain, request.token_id>>,
                        [original_chain |-> request.source_chain,
                         original_token_id |-> request.token_id,
                         destination_chain |-> request.destination_chain,
                         destination_token_id |-> request.token_id,
                         bridged_at |-> BlockTimestamp,
                         status |-> "InTransit"])
                 /\ last' = Call("execute", "Ok")
    /\ events' = Emitted(last'.result,
            <<BridgeExecuted(bridge_requests[request_id],
              generate_bridge_transaction_hash(bridge_requests[request_id]))>>)
    /\ UNCHANGED <<contract, block_number, approvals, token_owner,
                   owner_token_count, balances, token_properties,
                   compliance_flags, bridge_operators, bridge_config,
                   bridge_request_counter, total_supply, token_counter, admin,
                   token_approvals, operator_approvals, bridgeVars>>

execute_bridge(caller, request_id) ==
    execute_bridge_upto(MaxExecutes, caller, request_id)

\* The custody release shared by UnlockToken and CancelBridge: when the token
\* is held by the zero address it goes back to the request's sender.
TokenIsLocked(request) ==
    /\ request.token_id \in DOMAIN token_owner
    /\ token_owner[request.token_id] = ZERO

recover_failed_bridge(caller, request_id, recovery_action) ==
    /\ contract = "token"
    /\ IF caller # admin
       THEN /\ last' = Call("recover", "Unauthorized")
            /\ UNCHANGED <<bridge_requests, token_owner, balances,
                           owner_token_count, approvals>>
       ELSE IF request_id \notin DOMAIN bridge_requests
       THEN /\ last' = Call("recover", "InvalidRequest")
            /\ UNCHANGED <<bridge_requests, token_owner, balances,
                           owner_token_count, approvals>>
       ELSE LET request == bridge_requests[request_id]
                unlock == /\ recovery_action \in {"UnlockToken", "CancelBridge"}
                          /\ TokenIsLocked(request)
            IN
            IF ~CanRecover(request.status)
            THEN /\ last' = Call("recover", "InvalidRequest")
                 /\ UNCHANGED <<bridge_requests, token_owner, balances,
                                owner_token_count, approvals>>
            ELSE /\ IF unlock
                    THEN /\ owner_token_count[request.sender] < MaxCount
                         /\ token_owner' = [token_owner EXCEPT
                                ![request.token_id] = request.sender]
                         /\ balances' = [balances EXCEPT
                                ![<<request.sender, request.token_id>>] = 1]
                         /\ owner_token_count' =
                                add_token_to_owner(owner_token_count,
                                                   request.sender)
                    ELSE UNCHANGED <<token_owner, balances, owner_token_count>>
                 /\ bridge_requests' = [bridge_requests EXCEPT
                        ![request_id] = RecoveredRequest(@, recovery_action)]
                 /\ approvals' =
                      IF recovery_action = "RetryBridge"
                      THEN [approvals EXCEPT ![request_id] = {}]
                      ELSE approvals
                 /\ last' = RecoverCall("Ok", recovery_action)
    /\ events' = Emitted(last'.result,
            <<BridgeRecovered(request_id, recovery_action)>>)
    /\ UNCHANGED <<contract, block_number, token_properties, compliance_flags,
                   bridged_tokens, bridge_operators, bridge_transactions,
                   bridge_config, verified_bridge_hashes,
                   bridge_request_counter, total_supply, token_counter, admin,
                   token_approvals, operator_approvals, bridgeVars>>


\* ------------------------------------------------- ownership and transfers
\* The part of the frame the ownership messages share: they touch no bridge
\* request, no operator and no configuration.
ledgerFrame == <<contract, block_number, approvals, bridge_operators,
                 bridge_requests, bridge_transactions, bridge_config,
                 verified_bridge_hashes, bridge_request_counter, admin,
                 bridgeVars>>

\* self.operator_approvals.get((&owner, &operator)).unwrap_or(false)
is_approved_for_all(owner, operator) == <<owner, operator>> \in operator_approvals

remove_token_from_owner(count, from) == [count EXCEPT ![from] = @ - 1]

\* A hash check that accepts every hash.
IsVerifiedHash_any(verified, transaction_hash) == TRUE

\* self.verified_bridge_hashes.get(&transaction_hash).unwrap_or(false)
IsVerifiedHash(verified, transaction_hash) == transaction_hash \in verified

transfer_from(caller, from, to, token_id) ==
    /\ contract = "token"
    /\ IF token_id \notin DOMAIN token_owner
       THEN /\ last' = Call("transfer_from", "TokenNotFound")
            /\ UNCHANGED <<owner_token_count, token_approvals>>
       ELSE IF token_owner[token_id] # from
       THEN /\ last' = Call("transfer_from", "Unauthorized")
            /\ UNCHANGED <<owner_token_count, token_approvals>>
       ELSE IF /\ caller # from
               /\ ~(/\ token_id \in DOMAIN token_approvals
                    /\ token_approvals[token_id] = caller)
               /\ ~is_approved_for_all(from, caller)
       THEN /\ last' = Call("transfer_from", "Unauthorized")
            /\ UNCHANGED <<owner_token_count, token_approvals>>
       ELSE IF owner_token_count[from] = 0
       THEN /\ last' = Call("transfer_from", "TokenNotFound")
            /\ UNCHANGED <<owner_token_count, token_approvals>>
       ELSE \* only the counts move: token_owner and balances are not written
            /\ (to = from \/ owner_token_count[to] < MaxCount)
            /\ owner_token_count' =
                  add_token_to_owner(
                      remove_token_from_owner(owner_token_count, from), to)
            /\ token_approvals' =
                  [t \in DOMAIN token_approvals \ {token_id} |->
                      token_approvals[t]]
            /\ last' = Call("transfer_from", "Ok")
    /\ events' = Emitted(last'.result, <<Transfer({from}, {to}, token_id)>>)
    /\ UNCHANGED <<token_owner, balances, token_properties, compliance_flags,
                   bridged_tokens, total_supply, token_counter,
                   operator_approvals, ledgerFrame>>

\* The message `approve`; the name is taken by the argument of sign.
erc721_approve(caller, to, token_id) ==
    /\ contract = "token"
    /\ IF token_id \notin DOMAIN token_owner
       THEN /\ last' = Call("approve", "TokenNotFound")
            /\ UNCHANGED token_approvals
       ELSE IF /\ token_owner[token_id] # caller
               /\ ~is_approved_for_all(token_owner[token_id], caller)
       THEN /\ last' = Call("approve", "Unauthorized")
            /\ UNCHANGED token_approvals
       ELSE /\ token_approvals' = Put(token_approvals, token_id, to)
            /\ last' = Call("approve", "Ok")
    /\ events' = Emitted(last'.result,
            <<Approval(token_owner[token_id], to, token_id)>>)
    /\ UNCHANGED <<token_owner, owner_token_count, balances, token_properties,
                   compliance_flags, bridged_tokens, total_supply,
                   token_counter, operator_approvals, ledgerFrame>>

set_approval_for_all(caller, operator, approved) ==
    /\ contract = "token"
    /\ operator_approvals' =
          IF approved THEN operator_approvals \cup {<<caller, operator>>}
                      ELSE operator_approvals \ {<<caller, operator>>}
    /\ last' = Call("set_approval_for_all", "Ok")
    /\ events' = <<ApprovalForAll(caller, operator, approved)>>
    /\ UNCHANGED <<token_owner, owner_token_count, balances, token_properties,
                   compliance_flags, bridged_tokens, total_supply,
                   token_counter, token_approvals, ledgerFrame>>

\* The loop of safe_batch_transfer_from from position i on: the balances it
\* leaves and the result it returns.  A short balance returns from the middle
\* of the loop, after the earlier positions were written.
RECURSIVE BatchTransfer(_, _, _, _, _, _)
BatchTransfer(bal, from, to, ids, amounts, i) ==
    IF i > Len(ids) THEN [balances |-> bal, result |-> "Ok"]
    ELSE IF bal[<<from, ids[i]>>] < amounts[i]
    THEN [balances |-> bal, result |-> "Unauthorized"]
    ELSE LET debited == [bal EXCEPT ![<<from, ids[i]>>] = @ - amounts[i]]
             credited == [debited EXCEPT ![<<to, ids[i]>>] = @ + amounts[i]]
         IN BatchTransfer(credited, from, to, ids, amounts, i + 1)

safe_batch_transfer_from(caller, from, to, ids, amounts) ==
    /\ contract = "token"
    /\ IF from # caller /\ ~is_approved_for_all(from, caller)
       THEN /\ last' = Call("safe_batch_transfer_from", "Unauthorized")
            /\ UNCHANGED balances
       ELSE IF Len(ids) # Len(amounts)
       THEN /\ last' = Call("safe_batch_transfer_from", "Unauthorized")
            /\ UNCHANGED balances
       ELSE LET done == BatchTransfer(balances, from, to, ids, amounts, 1) IN
            /\ \A k \in DOMAIN done.balances : done.balances[k] <= MaxBalance
            /\ balances' = done.balances
            /\ last' = Call("safe_batch_transfer_from", done.result)
    /\ events' = Emitted(last'.result,
            [i \in 1..Len(ids) |-> Transfer({from}, {to}, ids[i])])
    /\ UNCHANGED <<token_owner, owner_token_count, token_properties,
                   compliance_flags, bridged_tokens, total_supply,
                   token_counter, token_approvals, operator_approvals,
                   ledgerFrame>>

\* ------------------------------------------------------------ mint and burn
\* A mint that reuses the newest id instead of allocating one.
next_token_id_reuse(counter) == IF counter = 0 THEN 1 ELSE counter

\* self.token_counter += 1; let new_token_id = self.token_counter;
next_token_id(counter) == counter + 1

receive_bridged_token(caller, source_chain, original_token_id, recipient, metadata, transaction_hash) ==
    /\ contract = "token"
    /\ IF ~is_bridge_operator(bridge_operators, caller)
       THEN /\ last' = Call("receive", "Unauthorized")
            /\ UNCHANGED <<token_counter, token_properties, token_owner,
                           owner_token_count, balances, compliance_flags,
                           total_supply, bridged_tokens>>
       ELSE IF ~IsVerifiedHash(verified_bridge_hashes, transaction_hash)
       THEN /\ last' = Call("receive", "InvalidRequest")
            /\ UNCHANGED <<token_counter, token_properties, token_owner,
                           owner_token_count, balances, compliance_flags,
                           total_supply, bridged_tokens>>
       ELSE LET new_token_id == next_token_id(token_counter)
                key == <<source_chain, original_token_id>>
            IN
            /\ new_token_id \in AllTokenIds
            /\ owner_token_count[recipient] < MaxCount
            /\ token_counter' = new_token_id
            /\ token_properties' = Put(token_properties, new_token_id, metadata)
            /\ token_owner' = Put(token_owner, new_token_id, recipient)
            /\ owner_token_count' =
                  add_token_to_owner(owner_token_count, recipient)
            /\ balances' = [balances EXCEPT ![<<recipient, new_token_id>>] = 1]
            /\ compliance_flags' = Put(compliance_flags, new_token_id,
                  [verified |-> TRUE, compliance_type |-> "Bridge"])
            /\ total_supply' = total_supply + 1
            /\ bridged_tokens' =
                  IF key \in DOMAIN bridged_tokens
                  THEN [bridged_tokens EXCEPT
                           ![key].status = "Completed",
                           ![key].destination_token_id = new_token_id]
                  ELSE bridged_tokens
            /\ last' = Call("receive", "Ok")
    /\ events' = Emitted(last'.result,
            <<Transfer({}, {recipient}, token_counter')>>)
    /\ UNCHANGED <<token_approvals, operator_approvals, ledgerFrame>>

\* A burn check that accepts a bridged record in every status.
CanBurn_any(status) == TRUE

\* bridged_info.status != BridgingStatus::Completed: the status burn accepts.
CanBurn(status) == status = "Completed"

burn_bridged_token(caller, token_id, destination_chain, recipient) ==
    /\ contract = "token"
    /\ LET key == <<destination_chain, token_id>> IN
       IF token_id \notin DOMAIN token_owner
       THEN /\ last' = Call("burn", "TokenNotFound")
            /\ UNCHANGED <<owner_token_count, token_owner, balances,
                           total_supply, bridged_tokens>>
       ELSE IF token_owner[token_id] # caller
       THEN /\ last' = Call("burn", "Unauthorized")
            /\ UNCHANGED <<owner_token_count, token_owner, balances,
                           total_supply, bridged_tokens>>
       ELSE IF key \notin DOMAIN bridged_tokens
       THEN /\ last' = Call("burn", "BridgeNotSupported")
            /\ UNCHANGED <<owner_token_count, token_owner, balances,
                           total_supply, bridged_tokens>>
       ELSE IF ~CanBurn(bridged_tokens[key].status)
       THEN /\ last' = Call("burn", "InvalidRequest")
            /\ UNCHANGED <<owner_token_count, token_owner, balances,
                           total_supply, bridged_tokens>>
       ELSE IF owner_token_count[caller] = 0
       THEN /\ last' = Call("burn", "TokenNotFound")
            /\ UNCHANGED <<owner_token_count, token_owner, balances,
                           total_supply, bridged_tokens>>
       ELSE /\ owner_token_count' =
                  remove_token_from_owner(owner_token_count, caller)
            /\ token_owner' = [t \in DOMAIN token_owner \ {token_id} |->
                                  token_owner[t]]
            /\ balances' = [balances EXCEPT ![<<caller, token_id>>] = 0]
            /\ total_supply' = total_supply - 1
            /\ bridged_tokens' = [bridged_tokens EXCEPT ![key].status = "Locked"]
            /\ last' = Call("burn", "Ok")
    /\ events' = Emitted(last'.result, <<Transfer({caller}, {}, token_id)>>)
    /\ UNCHANGED <<token_properties, compliance_flags, token_counter,
                   token_approvals, operator_approvals, ledgerFrame>>

\* ----------------------------------------------------------- configuration
\* An admin check that lets every account through.
only_admin_anyone(admin_account, caller) == TRUE

\* if caller != self.admin { return Err(Error::Unauthorized); }
only_admin(admin_account, caller) == caller = admin_account

update_bridge_config(caller, config) ==
    /\ contract = "token"
    /\ IF ~only_admin(admin, caller)
       THEN /\ last' = Call("update_config", "Unauthorized")
            /\ UNCHANGED bridge_config
       ELSE /\ bridge_config' = config
            /\ last' = Call("update_config", "Ok")
    /\ events' = <<>>
    /\ UNCHANGED <<contract, block_number, approvals, token_owner,
                   owner_token_count, balances, token_properties,
                   compliance_flags, bridged_tokens, bridge_operators,
                   bridge_requests, bridge_transactions,
                   verified_bridge_hashes, bridge_request_counter,
                   total_supply, token_counter, admin, token_approvals,
                   operator_approvals, bridgeVars>>

set_emergency_pause(caller, paused) ==
    /\ contract = "token"
    /\ IF ~only_admin(admin, caller)
       THEN /\ last' = Call("set_emergency_pause", "Unauthorized")
            /\ UNCHANGED bridge_config
       ELSE /\ bridge_config' = [bridge_config EXCEPT !.emergency_pause = paused]
            /\ last' = Call("set_emergency_pause", "Ok")
    /\ events' = <<>>
    /\ UNCHANGED <<contract, block_number, approvals, token_owner,
                   owner_token_count, balances, token_properties,
                   compliance_flags, bridged_tokens, bridge_operators,
                   bridge_requests, bridge_transactions,
                   verified_bridge_hashes, bridge_request_counter,
                   total_supply, token_counter, admin, token_approvals,
                   operator_approvals, bridgeVars>>

\* ------------------------------------------------------------------ queries
\* estimate_bridge_gas(&self, ..): a query, which writes nothing.
estimate_bridge_gas(token_id, destination_chain) ==
    /\ contract = "token"
    /\ last' =
          IF destination_chain \notin bridge_config.supported_chains
          THEN Call("estimate_gas", "InvalidChain")
          ELSE IF token_id \notin DOMAIN token_properties
          THEN Call("estimate_gas", "TokenNotFound")
          ELSE LET base_gas == bridge_config.gas_limit_per_bridge
                   metadata_gas == token_properties[token_id] * GasPerCharacter
               IN Returned("estimate_gas", base_gas + metadata_gas)
    /\ events' = <<>>
    /\ UNCHANGED <<contract, block_number, approvals, tokenVars, bridgeVars>>

\* ========================================================= PropertyBridge
pb_generate_transaction_hash(request) ==
    TruncatedHash(EncodeRequest(request, BlockTimestamp))

pb_estimate_gas_usage(request) ==
    BaseGas + request.metadata * GasPerMetadataByte

\* is_authorized_for_token: "for now, any account can initiate a bridge"
pb_is_authorized_for_token(account, token_id) == TRUE

pb_get_current_chain_id == CurrentChainId

\* PropertyBridge::new(vec![1, 2, 3], 2, 5, 100, 500000), as the unit tests
\* of the contract construct it.
BridgeNew ==
    /\ pb_config = [supported_chains |-> SupportedChains,
                    min_signatures_required |-> MinSignaturesRequired,
                    max_signatures_required |-> MaxSignaturesRequired,
                    gas_limit_per_bridge |-> GasLimitPerBridge,
                    emergency_pause |-> FALSE]
    /\ pb_chain_info = [chain_id \in SupportedChains |->
                           [gas_multiplier |-> DefaultGasMultiplier]]
    /\ pb_bridge_requests = <<>>
    /\ pb_bridge_history = [a \in Accounts |-> <<>>]
    /\ pb_verified_transactions = {}
    /\ pb_bridge_operators = {Deployer}
    /\ pb_request_counter = 0
    /\ pb_transaction_counter = 0
    /\ pb_admin = Deployer

pb_InitiateCheck(caller, token_id, destination_chain, required_signatures) ==
    IF pb_config.emergency_pause THEN "BridgePaused"
    ELSE IF destination_chain \notin pb_config.supported_chains
         THEN "InvalidChain"
    ELSE IF \/ required_signatures < pb_config.min_signatures_required
            \/ required_signatures > pb_config.max_signatures_required
         THEN "InsufficientSignatures"
    ELSE IF ~pb_is_authorized_for_token(caller, token_id) THEN "Unauthorized"
    ELSE "Ok"

pb_initiate_bridge_multisig(caller, token_id, destination_chain, recipient, required_signatures, timeout_blocks, metadata) ==
    /\ contract = "bridge"
    /\ LET check == pb_InitiateCheck(caller, token_id, destination_chain,
                                     required_signatures)
           request_id == next_request_id(pb_request_counter)
       IN
       IF check # "Ok"
       THEN /\ last' = Call("create", check)
            /\ UNCHANGED <<pb_bridge_requests, pb_request_counter, approvals>>
       ELSE /\ pb_request_counter' = request_id
            /\ pb_bridge_requests' = Put(pb_bridge_requests, request_id,
                  [request_id |-> request_id,
                   token_id |-> token_id,
                   source_chain |-> pb_get_current_chain_id,
                   destination_chain |-> destination_chain,
                   sender |-> caller,
                   recipient |-> recipient,
                   required_signatures |-> required_signatures,
                   signatures |-> <<>>,
                   created_at |-> block_number,
                   expires_at |-> ExpiresAt(block_number, timeout_blocks),
                   status |-> "Pending",
                   metadata |-> metadata])
            /\ approvals' = Put(approvals, request_id, {})
            /\ last' = Call("create", "Ok")
    /\ events' = Emitted(last'.result,
            <<BridgeRequestCreated(
              pb_bridge_requests'[pb_request_counter'], caller)>>)
    /\ UNCHANGED <<contract, block_number, pb_config, pb_bridge_history,
                   pb_verified_transactions, pb_bridge_operators,
                   pb_transaction_counter, pb_admin, pb_chain_info, tokenVars>>

pb_sign_bridge_request(caller, request_id, approve) ==
    /\ contract = "bridge"
    /\ IF ~is_bridge_operator(pb_bridge_operators, caller)
       THEN /\ last' = Call("sign", "Unauthorized")
            /\ UNCHANGED <<pb_bridge_requests, approvals>>
       ELSE IF request_id \notin DOMAIN pb_bridge_requests
       THEN /\ last' = Call("sign", "InvalidRequest")
            /\ UNCHANGED <<pb_bridge_requests, approvals>>
       ELSE LET request == pb_bridge_requests[request_id]
                signatures == Append(request.signatures, caller)
                outcome == SignOutcome(approve, signatures,
                                       request.required_signatures)
            IN
            IF IsExpired(request)
            THEN /\ last' = Call("sign", "RequestExpired")
                 /\ UNCHANGED <<pb_bridge_requests, approvals>>
            ELSE IF Contains(request.signatures, caller)
            THEN /\ last' = Call("sign", "AlreadySigned")
                 /\ UNCHANGED <<pb_bridge_requests, approvals>>
            ELSE IF outcome = "Failed"
            THEN /\ pb_bridge_requests' = [pb_bridge_requests EXCEPT
                        ![request_id].signatures = signatures,
                        ![request_id].status = "Failed"]
                 /\ last' = Call("sign", "Ok")
                 /\ UNCHANGED approvals
            ELSE IF outcome = "Locked"
            THEN /\ pb_bridge_requests' = [pb_bridge_requests EXCEPT
                        ![request_id].signatures = signatures,
                        ![request_id].status = "Locked"]
                 /\ approvals' = [approvals EXCEPT
                                     ![request_id] = @ \cup {caller}]
                 /\ last' = LockingCall("sign", "Ok")
            ELSE /\ pb_bridge_requests' = [pb_bridge_requests EXCEPT
                        ![request_id].signatures = signatures]
                 /\ approvals' = [approvals EXCEPT
                                     ![request_id] = @ \cup {caller}]
                 /\ last' = Call("sign", "Ok")
    /\ events' = Emitted(last'.result,
            <<BridgeRequestSigned(pb_bridge_requests'[request_id], caller)>>)
    /\ UNCHANGED <<contract, block_number, pb_config, pb_bridge_history,
                   pb_verified_transactions, pb_bridge_operators,
                   pb_request_counter, pb_transaction_counter, pb_admin, pb_chain_info,
                   tokenVars>>

pb_execute_bridge_upto(limit, caller, request_id) ==
    /\ contract = "bridge"
    /\ IF ~is_bridge_operator(pb_bridge_operators, caller)
       THEN /\ last' = Call("execute", "Unauthorized")
            /\ UNCHANGED <<pb_bridge_requests, pb_verified_transactions,
                           pb_bridge_history, pb_transaction_counter>>
       ELSE IF request_id \notin DOMAIN pb_bridge_requests
       THEN /\ last' = Call("execute", "InvalidRequest")
            /\ UNCHANGED <<pb_bridge_requests, pb_verified_transactions,
                           pb_bridge_history, pb_transaction_counter>>
       ELSE LET request == pb_bridge_requests[request_id]
                transaction_hash == pb_generate_transaction_hash(request)
                transaction ==
                    [transaction_id |-> pb_transaction_counter + 1,
                     token_id |-> request.token_id,
                     source_chain |-> request.source_chain,
                     destination_chain |-> request.destination_chain,
                     sender |-> request.sender,
                     recipient |-> request.recipient,
                     transaction_hash |-> transaction_hash,
                     timestamp |-> BlockTimestamp,
                     gas_used |-> pb_estimate_gas_usage(request),
                     status |-> "InTransit",
                     metadata |-> request.metadata]
            IN
            IF ~CanExecute(request.status)
            THEN /\ last' = Call("execute", "InvalidRequest")
                 /\ UNCHANGED <<pb_bridge_requests, pb_verified_transactions,
                                pb_bridge_history, pb_transaction_counter>>
            ELSE IF Len(request.signatures) < request.required_signatures
            THEN /\ last' = Call("execute", "InsufficientSignatures")
                 /\ UNCHANGED <<pb_bridge_requests, pb_verified_transactions,
                                pb_bridge_history, pb_transaction_counter>>
            ELSE /\ HistoryTotal(pb_bridge_history) < limit
                 /\ pb_transaction_counter' = pb_transaction_counter + 1
                 /\ pb_bridge_requests' = [pb_bridge_requests EXCEPT
                                          ![request_id].status = "Completed"]
                 /\ pb_verified_transactions' =
                        pb_verified_transactions \cup {transaction_hash}
                 /\ pb_bridge_history' =
                        push_history(pb_bridge_history, request.sender,
                                     transaction)
                 /\ last' = Call("execute", "Ok")
    /\ events' = Emitted(last'.result,
            <<BridgeExecuted(pb_bridge_requests[request_id],
              pb_generate_transaction_hash(pb_bridge_requests[request_id]))>>)
    /\ UNCHANGED <<contract, block_number, approvals, pb_config,
                   pb_bridge_operators, pb_request_counter, pb_admin, pb_chain_info,
                   tokenVars>>

pb_execute_bridge(caller, request_id) ==
    pb_execute_bridge_upto(MaxExecutes, caller, request_id)

pb_recover_failed_bridge(caller, request_id, recovery_action) ==
    /\ contract = "bridge"
    /\ IF caller # pb_admin
       THEN /\ last' = Call("recover", "Unauthorized")
            /\ UNCHANGED <<pb_bridge_requests, approvals>>
       ELSE IF request_id \notin DOMAIN pb_bridge_requests
       THEN /\ last' = Call("recover", "InvalidRequest")
            /\ UNCHANGED <<pb_bridge_requests, approvals>>
       ELSE IF ~CanRecover(pb_bridge_requests[request_id].status)
       THEN /\ last' = Call("recover", "InvalidRequest")
            /\ UNCHANGED <<pb_bridge_requests, approvals>>
       ELSE /\ pb_bridge_requests' = [pb_bridge_requests EXCEPT
                   ![request_id] = RecoveredRequest(@, recovery_action)]
            /\ approvals' =
                 IF recovery_action = "RetryBridge"
                 THEN [approvals EXCEPT ![request_id] = {}]
                 ELSE approvals
            /\ last' = RecoverCall("Ok", recovery_action)
    /\ events' = Emitted(last'.result,
            <<BridgeRecovered(request_id, recovery_action)>>)
    /\ UNCHANGED <<contract, block_number, pb_config, pb_bridge_history,
                   pb_verified_transactions, pb_bridge_operators,
                   pb_request_counter, pb_transaction_counter, pb_admin, pb_chain_info,
                   tokenVars>>

pb_add_bridge_operator(caller, operator) ==
    /\ contract = "bridge"
    /\ IF caller # pb_admin
       THEN /\ last' = Call("add_operator", "Unauthorized")
            /\ UNCHANGED pb_bridge_operators
       ELSE /\ pb_bridge_operators' = pb_bridge_operators \cup {operator}
            /\ last' = Call("add_operator", "Ok")
    /\ events' = <<>>
    /\ UNCHANGED <<contract, block_number, approvals, pb_config,
                   pb_bridge_requests, pb_bridge_history,
                   pb_verified_transactions, pb_request_counter,
                   pb_transaction_counter, pb_admin, pb_chain_info, tokenVars>>

pb_remove_bridge_operator(caller, operator) ==
    /\ contract = "bridge"
    /\ IF caller # pb_admin
       THEN /\ last' = Call("remove_operator", "Unauthorized")
            /\ UNCHANGED pb_bridge_operators
       ELSE /\ pb_bridge_operators' = pb_bridge_operators \ {operator}
            /\ last' = Call("remove_operator", "Ok")
    /\ events' = <<>>
    /\ UNCHANGED <<contract, block_number, approvals, pb_config,
                   pb_bridge_requests, pb_bridge_history,
                   pb_verified_transactions, pb_request_counter,
                   pb_transaction_counter, pb_admin, pb_chain_info, tokenVars>>

pb_update_config(caller, config) ==
    /\ contract = "bridge"
    /\ IF ~only_admin(pb_admin, caller)
       THEN /\ last' = Call("update_config", "Unauthorized")
            /\ UNCHANGED pb_config
       ELSE /\ pb_config' = config
            /\ last' = Call("update_config", "Ok")
    /\ events' = <<>>
    /\ UNCHANGED <<contract, block_number, approvals, pb_bridge_requests,
                   pb_bridge_history, pb_verified_transactions,
                   pb_bridge_operators, pb_request_counter,
                   pb_transaction_counter, pb_admin, pb_chain_info, tokenVars>>

pb_set_emergency_pause(caller, paused) ==
    /\ contract = "bridge"
    /\ IF ~only_admin(pb_admin, caller)
       THEN /\ last' = Call("set_emergency_pause", "Unauthorized")
            /\ UNCHANGED pb_config
       ELSE /\ pb_config' = [pb_config EXCEPT !.emergency_pause = paused]
            /\ last' = Call("set_emergency_pause", "Ok")
    /\ events' = <<>>
    /\ UNCHANGED <<contract, block_number, approvals, pb_bridge_requests,
                   pb_bridge_history, pb_verified_transactions,
                   pb_bridge_operators, pb_request_counter,
                   pb_transaction_counter, pb_admin, pb_chain_info, tokenVars>>

pb_update_chain_info(caller, chain_id, info) ==
    /\ contract = "bridge"
    /\ IF ~only_admin(pb_admin, caller)
       THEN /\ last' = Call("update_chain_info", "Unauthorized")
            /\ UNCHANGED pb_chain_info
       ELSE /\ pb_chain_info' = Put(pb_chain_info, chain_id, info)
            /\ last' = Call("update_chain_info", "Ok")
    /\ events' = <<>>
    /\ UNCHANGED <<contract, block_number, approvals, pb_config,
                   pb_bridge_requests, pb_bridge_history,
                   pb_verified_transactions, pb_bridge_operators,
                   pb_request_counter, pb_transaction_counter, pb_admin,
                   tokenVars>>

\* estimate_bridge_gas of the bridge: the chain is looked up in chain_info,
\* and the token id is not used.
pb_estimate_bridge_gas(token_id, destination_chain) ==
    /\ contract = "bridge"
    /\ last' =
          IF destination_chain \notin DOMAIN pb_chain_info
          THEN Call("estimate_gas", "InvalidChain")
          ELSE LET base_gas == pb_config.gas_limit_per_bridge
                   multiplier == pb_chain_info[destination_chain].gas_multiplier
               IN Returned("estimate_gas", (base_gas * multiplier) \div 100)
    /\ events' = <<>>
    /\ UNCHANGED <<contract, block_number, approvals, tokenVars, bridgeVars>>

\* ============================================================ environment
\* The chain produces a block; nothing else changes.
AdvanceBlock ==
    /\ block_number < MaxBlock
    /\ block_number' = block_number + 1
    /\ last' = Call("advance_block", "Ok")
    /\ events' = <<>>
    /\ UNCHANGED <<contract, approvals, tokenVars, bridgeVars>>

\* ========================================================== specification
Init ==
    /\ contract \in {"token", "bridge"}
    /\ block_number = 0
    /\ last = Call("new", "Ok")
    /\ approvals = <<>>
    /\ events = <<>>
    /\ TokenNew
    /\ BridgeNew

\* The messages of the two contracts, with their callers and arguments drawn
\* from the sets above.  `operators` are the accounts the admin may register
\* as bridge operators, `cap` is the number of requests that may be created
\* and `executes` the number of successful executes.
NextFor(operators, cap, executes) ==
    \/ \E caller \in Registrants, metadata \in Metadatas :
          register_property_with_token(caller, metadata)
    \/ \E caller \in Accounts, token_id \in TokenIds,
          status \in ComplianceInputs :
          verify_compliance(caller, token_id, status)
    \/ \E caller \in Accounts, operator \in operators :
          add_bridge_operator(caller, operator)
    \/ /\ bridge_request_counter < cap
       /\ \E caller \in Requesters, token_id \in TokenIds,
             chain \in ChainInputs, recipient \in Recipients,
             required \in RequiredInputs, timeout \in Timeouts :
             initiate_bridge_multisig(caller, token_id, chain, recipient,
                                      required, timeout)
    \/ \E caller \in Accounts, request_id \in RequestIds, approve \in BOOLEAN :
          sign_bridge_request(caller, request_id, approve)
    \/ \E caller \in Accounts, request_id \in RequestIds :
          execute_bridge_upto(executes, caller, request_id)
    \/ \E caller \in Accounts, request_id \in RequestIds,
          action \in RecoveryActions :
          recover_failed_bridge(caller, request_id, action)
    \/ /\ pb_request_counter < cap
       /\ \E caller \in BridgeRequesters, token_id \in TokenIds,
             chain \in ChainInputs, recipient \in Recipients,
             required \in RequiredInputs, timeout \in Timeouts,
             metadata \in Metadatas :
             pb_initiate_bridge_multisig(caller, token_id, chain, recipient,
                                         required, timeout, metadata)
    \/ \E caller \in Accounts, request_id \in RequestIds, approve \in BOOLEAN :
          pb_sign_bridge_request(caller, request_id, approve)
    \/ \E caller \in Accounts, request_id \in RequestIds :
          pb_execute_bridge_upto(executes, caller, request_id)
    \/ \E caller \in Accounts, request_id \in RequestIds,
          action \in RecoveryActions :
          pb_recover_failed_bridge(caller, request_id, action)
    \/ \E caller \in Accounts, operator \in operators :
          pb_add_bridge_operator(caller, operator)
    \/ AdvanceBlock

NextWith(operators, cap) == NextFor(operators, cap, MaxExecutes)

\* One request, up to three operators.
Next == NextWith({"bob", "charlie"}, MaxRequests)

Spec == Init /\ [][Next]_vars

\* Several requests, up to two operators.
NextDup == NextWith({"bob"}, MaxRequestsDup)

SpecDup == Init /\ [][NextDup]_vars

\* One request, with operators added and removed by the admin.
NextAdmin ==
    \/ NextWith({"bob"}, MaxRequests)
    \/ \E caller \in Accounts, operator \in {"alice", "bob"} :
          remove_bridge_operator(caller, operator)
    \/ \E caller \in Accounts, operator \in {"alice", "bob"} :
          pb_remove_bridge_operator(caller, operator)

SpecAdmin == Init /\ [][NextAdmin]_vars

\* The hashes a relayer may present: every hash execute has verified and one
\* that no request produces.
UnknownHash == <<0, 0, 0, 0>>
HashInputs == verified_bridge_hashes \cup {UnknownHash}

\* The id lists and amount lists given to safe_batch_transfer_from.
BatchIds == {<<>>} \cup {<<t>> : t \in TokenIds}
BatchAmounts == {<<>>, <<1>>}

\* One request, with the transfers and approvals of the token ledger.
NextLedger ==
    \/ NextWith(LedgerOperators, MaxRequests)
    \/ \E caller \in Holders, from \in Holders \cup {ZERO}, to \in Holders,
          token_id \in TokenIds :
          transfer_from(caller, from, to, token_id)
    \/ \E caller \in Holders, to \in Holders, token_id \in TokenIds :
          erc721_approve(caller, to, token_id)
    \/ \E caller \in Registrants, operator \in Recipients,
          approved \in BOOLEAN :
          set_approval_for_all(caller, operator, approved)
    \/ \E caller \in Holders, from \in Holders, to \in Holders,
          ids \in BatchIds, amounts \in BatchAmounts :
          safe_batch_transfer_from(caller, from, to, ids, amounts)

SpecLedger == Init /\ [][NextLedger]_vars

\* One request, with the mint of a received token and the burn for its
\* return.
NextMint ==
    \/ NextWith(LedgerOperators, MaxRequests)
    \/ \E caller \in Accounts, source_chain \in SupportedChains \ {CurrentChainId},
          original_token_id \in TokenIds, recipient \in Recipients,
          metadata \in Metadatas, transaction_hash \in HashInputs :
          receive_bridged_token(caller, source_chain, original_token_id,
                                recipient, metadata, transaction_hash)
    \/ \E caller \in Holders, token_id \in AllTokenIds,
          destination_chain \in SupportedChains \ {CurrentChainId},
          recipient \in Recipients :
          burn_bridged_token(caller, token_id, destination_chain, recipient)

SpecMint == Init /\ [][NextMint]_vars

\* The configurations the admin may install: the supported chains with and
\* without chain 2, paused or not, the signature bounds as constructed.
ConfigInputs ==
    [supported_chains : {SupportedChains, SupportedChains \ {2}},
     min_signatures_required : {MinSignaturesRequired},
     max_signatures_required : {MaxSignaturesRequired},
     gas_limit_per_bridge : {GasLimitPerBridge},
     emergency_pause : BOOLEAN]

\* One request, with every admin message: operators added and removed, the
\* pause flag set and the configuration replaced.
NextConfig ==
    \/ NextAdmin
    \/ \E caller \in Accounts, config \in ConfigInputs :
          update_bridge_config(caller, config)
    \/ \E caller \in Accounts, paused \in BOOLEAN :
          set_emergency_pause(caller, paused)
    \/ \E caller \in Accounts, config \in ConfigInputs :
          pb_update_config(caller, config)
    \/ \E caller \in Accounts, paused \in BOOLEAN :
          pb_set_emergency_pause(caller, paused)

SpecConfig == Init /\ [][NextConfig]_vars

\* One request and up to three operators, with a second successful execute.
NextHistory == NextFor({"bob", "charlie"}, MaxRequests, MaxExecutes + 1)

SpecHistory == Init /\ [][NextHistory]_vars

\* The legal descriptions registered under SpecGas (by length, the empty one
\* included), the base costs the admin configures and the chain records the
\* bridge admin installs.
Descriptions == 0..MaxMeta
GasLimits == {0, GasLimitPerBridge}
GasConfigInputs ==
    [supported_chains : {SupportedChains, SupportedChains \ {2}},
     min_signatures_required : {MinSignaturesRequired},
     max_signatures_required : {MaxSignaturesRequired},
     gas_limit_per_bridge : GasLimits,
     emergency_pause : {FALSE}]
ChainInfoInputs == [gas_multiplier : {DefaultGasMultiplier}]

\* One request, with the configuration replaced and the gas estimate queried.
NextGas ==
    \/ NextWith(LedgerOperators, MaxRequests)
    \/ \E caller \in Registrants, metadata \in Descriptions :
          register_property_with_token(caller, metadata)
    \/ \E caller \in Accounts, config \in GasConfigInputs :
          update_bridge_config(caller, config)
    \/ \E caller \in Accounts, config \in GasConfigInputs :
          pb_update_config(caller, config)
    \/ \E caller \in Accounts, chain_id \in ChainInputs,
          info \in ChainInfoInputs :
          pb_update_chain_info(caller, chain_id, info)
    \/ \E token_id \in TokenIds, chain \in ChainInputs :
          estimate_bridge_gas(token_id, chain)
    \/ \E token_id \in TokenIds, chain \in ChainInputs :
          pb_estimate_bridge_gas(token_id, chain)

SpecGas == Init /\ [][NextGas]_vars

\* One request, with the pause flag set and cleared by the admin.
NextPause ==
    \/ NextWith(LedgerOperators, MaxRequests)
    \/ \E caller \in Accounts, paused \in BOOLEAN :
          set_emergency_pause(caller, paused)
    \/ \E caller \in Accounts, paused \in BOOLEAN :
          pb_set_emergency_pause(caller, paused)

SpecPause == Init /\ [][NextPause]_vars

\* ------------------------------------------------- the two copies side by side
\* Hands the turn to the other contract; nothing else changes.
SwitchContract(to) ==
    /\ contract # to
    /\ contract' = to
    /\ UNCHANGED <<block_number, last, approvals, events, tokenVars,
                   bridgeVars>>

\* The two contracts hold the same requests, operators and admin.
Sync ==
    /\ bridge_requests = pb_bridge_requests
    /\ bridge_request_counter = pb_request_counter
    /\ bridge_operators = pb_bridge_operators
    /\ admin = pb_admin

\* Both contracts deployed by the same account; the token ledger moves first.
InitTwin == Init /\ contract = "token"

\* The token ledger takes a call while the two agree; when that call has
\* changed its requests or operators the bridge takes the call that brings
\* it level again, and the turn goes back.
NextTwin ==
    \/ /\ Sync
       /\ \E caller \in Registrants, metadata \in Metadatas :
             register_property_with_token(caller, metadata)
    \/ /\ Sync
       /\ \E caller \in Accounts, token_id \in TokenIds,
             status \in ComplianceInputs :
             verify_compliance(caller, token_id, status)
    \/ /\ Sync
       /\ \E caller \in Accounts, operator \in LedgerOperators :
             add_bridge_operator(caller, operator)
    \/ /\ Sync
       /\ bridge_request_counter < MaxRequests
       /\ \E caller \in Requesters, token_id \in TokenIds,
             chain \in ChainInputs, recipient \in Recipients,
             required \in RequiredInputs, timeout \in Timeouts :
             initiate_bridge_multisig(caller, token_id, chain, recipient,
                                      required, timeout)
    \/ /\ Sync
       /\ \E caller \in Accounts, request_id \in RequestIds,
             approve \in BOOLEAN :
             sign_bridge_request(caller, request_id, approve)
    \/ /\ Sync
       /\ \E caller \in Accounts, request_id \in RequestIds :
             execute_bridge(caller, request_id)
    \/ /\ Sync
       /\ \E caller \in Accounts, request_id \in RequestIds,
             action \in RecoveryActions :
             recover_failed_bridge(caller, request_id, action)
    \/ /\ Sync
       /\ contract = "token"
       /\ AdvanceBlock
    \/ /\ ~Sync
       /\ SwitchContract("bridge")
    \/ /\ \E caller \in Accounts, operator \in LedgerOperators :
             pb_add_bridge_operator(caller, operator)
       /\ Sync'
    \/ /\ \E caller \in Requesters, token_id \in TokenIds,
             chain \in ChainInputs, recipient \in Recipients,
             required \in RequiredInputs, timeout \in Timeouts,
             metadata \in Metadatas :
             pb_initiate_bridge_multisig(caller, token_id, chain, recipient,
                                         required, timeout, metadata)
       /\ Sync'
    \/ /\ \E caller \in Accounts, request_id \in RequestIds,
             approve \in BOOLEAN :
             pb_sign_bridge_request(caller, request_id, approve)
       /\ Sync'
    \/ /\ \E caller \in Accounts, request_id \in RequestIds :
             pb_execute_bridge(caller, request_id)
       /\ Sync'
    \/ /\ \E caller \in Accounts, request_id \in RequestIds,
             action \in RecoveryActions :
             pb_recover_failed_bridge(caller, request_id, action)
       /\ Sync'
    \/ /\ Sync
       /\ SwitchContract("token")

SpecTwin == InitTwin /\ [][NextTwin]_vars

\* ================================================================= views
\* The storage of the contract this behaviour runs.
Requests  == IF contract = "token" THEN bridge_requests ELSE pb_bridge_requests
Operators == IF contract = "token" THEN bridge_operators
                                   ELSE pb_bridge_operators
History   == IF contract = "token" THEN bridge_transactions
                                   ELSE pb_bridge_history
Verified  == IF contract = "token" THEN verified_bridge_hashes
                                   ELSE pb_verified_transactions
Admin     == IF contract = "token" THEN admin ELSE pb_admin

\* Everything the contracts store (all variables but the call record, the
\* block number and the approval history).
Storage == <<tokenVars, bridgeVars>>

\* A step of the message, in whichever contract runs.
Sign(caller, request_id, approve) ==
    \/ sign_bridge_request(caller, request_id, approve)
    \/ pb_sign_bridge_request(caller, request_id, approve)

Execute(caller, request_id) ==
    \/ execute_bridge(caller, request_id)
    \/ pb_execute_bridge(caller, request_id)

Recover(caller, request_id, recovery_action) ==
    \/ recover_failed_bridge(caller, request_id, recovery_action)
    \/ pb_recover_failed_bridge(caller, request_id, recovery_action)

Active(request) == request.status \in {"Pending", "Locked"}

\* The request is Failed and the last signature accepted on it was a veto.
FailedByVeto(request_id) ==
    LET request == Requests[request_id] IN
    /\ request.status = "Failed"
    /\ Len(request.signatures) > 0
    /\ request.signatures[Len(request.signatures)] \notin approvals[request_id]

\* ================================================================ claims

\* C1 -- Quorum safety: a request is Locked only if at least
\* required_signatures distinct operators approved it since it was created or
\* last reset by RetryBridge; a vetoing signer does not count.
C1_QuorumSafety ==
    \A id \in DOMAIN Requests :
        Requests[id].status = "Locked" =>
            Cardinality(approvals[id]) >= Requests[id].required_signatures

\* C2 -- No double representation: in the token ledger, while a request for
\* token t is Locked or Completed, t's owner-of-record is the zero account.
C2_NoDoubleRepresentation ==
    contract = "token" =>
        \A id \in DOMAIN bridge_requests :
            bridge_requests[id].status \in {"Locked", "Completed"} =>
                /\ bridge_requests[id].token_id \in DOMAIN token_owner
                /\ token_owner[bridge_requests[id].token_id] = ZERO

\* C3 -- At most one active request per asset: no two stored requests of the
\* same token are both Pending or Locked.
C3_AtMostOneActive ==
    \A i \in DOMAIN Requests, j \in DOMAIN Requests :
        (/\ i # j
         /\ Requests[i].token_id = Requests[j].token_id
         /\ Active(Requests[i]))
            => ~Active(Requests[j])

\* C4 -- Completed is terminal: a Completed request stays Completed in every
\* step, and every sign, execute or recover call made on it by an account
\* entitled to make it is rejected with InvalidRequest.
C4_CompletedTerminal ==
    [][\A id \in DOMAIN Requests :
          Requests[id].status = "Completed" =>
             /\ Requests'[id].status = "Completed"
             /\ \A caller \in Operators :
                   /\ \A approve \in BOOLEAN :
                         Sign(caller, id, approve) =>
                            last'.result = "InvalidRequest"
                   /\ Execute(caller, id) => last'.result = "InvalidRequest"
             /\ \A action \in RecoveryActions :
                   Recover(Admin, id, action) =>
                      last'.result = "InvalidRequest"]_vars

\* C5 -- Execute round-trip: execute by an operator on a Locked request
\* returns Ok, leaves the request Completed, makes the sender's history
\* exactly one entry longer, the new entry carrying the request's token,
\* chains, sender and recipient, and marks that entry's hash verified.
C5_ExecuteRoundTrip ==
    [][\A caller \in Accounts, id \in RequestIds :
          (/\ Execute(caller, id)
           /\ caller \in Operators
           /\ id \in DOMAIN Requests
           /\ Requests[id].status = "Locked")
          => LET request == Requests[id]
                 before == History[request.sender]
                 after == History'[request.sender]
             IN
             /\ last'.result = "Ok"
             /\ Requests'[id].status = "Completed"
             /\ Len(after) = Len(before) + 1
             /\ SubSeq(after, 1, Len(before)) = before
             /\ after[Len(after)].token_id = request.token_id
             /\ after[Len(after)].source_chain = request.source_chain
             /\ after[Len(after)].destination_chain =
                   request.destination_chain
             /\ after[Len(after)].sender = request.sender
             /\ after[Len(after)].recipient = request.recipient
             /\ after[Len(after)].transaction_hash \in Verified']_vars

\* The case of C5: an execute call has just succeeded, a request is Completed
\* and its sender's history holds an entry whose hash is verified.
C5_Witness ==
    /\ last.op = "execute"
    /\ last.result = "Ok"
    /\ \E id \in DOMAIN Requests :
          /\ Requests[id].status = "Completed"
          /\ Len(History[Requests[id].sender]) = 1
          /\ History[Requests[id].sender][1].transaction_hash \in Verified

\* C6 -- Quorum-once: the quorum branch of sign (status set to Locked, custody
\* taken) runs only on an approving call whose signature is the
\* required_signatures-th of the request, and no sign call moves a Locked
\* request back to Pending.
C6_QuorumOnce ==
    [][\A caller \in Accounts, id \in DOMAIN Requests, approve \in BOOLEAN :
          Sign(caller, id, approve) =>
             /\ last'.lock =>
                   /\ approve
                   /\ Len(Requests[id].signatures) + 1 =
                         Requests[id].required_signatures
             /\ Requests[id].status = "Locked" =>
                   Requests'[id].status # "Pending"]_vars

C8_VetoIdempotence ==
    [][\A caller \in Accounts, id \in DOMAIN Requests, approve \in BOOLEAN :
          (Sign(caller, id, approve) /\ FailedByVeto(id)) =>
             /\ last'.result # "Ok"
             /\ Requests'[id].status = "Failed"
             /\ Requests'[id].signatures = Requests[id].signatures]_vars

\* C9 -- Recovery closure: recover returns Ok only to the admin on a stored
\* request that is Failed or Expired; the admin's call on a Pending, Locked or
\* Completed request returns InvalidRequest and a non-admin's call returns
\* Unauthorized, both leaving the storage unchanged.
C9_RecoveryClosure ==
    [][\A caller \in Accounts, id \in RequestIds, action \in RecoveryActions :
          Recover(caller, id, action) =>
             /\ last'.result = "Ok" =>
                   /\ caller = Admin
                   /\ id \in DOMAIN Requests
                   /\ Requests[id].status \in {"Failed", "Expired"}
             /\ (/\ caller = Admin
                 /\ id \in DOMAIN Requests
                 /\ Requests[id].status \in {"Pending", "Locked", "Completed"})
                => /\ last'.result = "InvalidRequest"
                   /\ UNCHANGED Storage
             /\ caller # Admin =>
                   /\ last'.result = "Unauthorized"
                   /\ UNCHANGED Storage]_vars

\* The case of C9: the admin's RetryBridge has just succeeded, leaving the
\* request Pending with no signatures.
C9_Witness ==
    /\ last = RecoverCall("Ok", "RetryBridge")
    /\ \E id \in DOMAIN Requests :
          /\ Requests[id].status = "Pending"
          /\ Requests[id].signatures = <<>>

\* C10 -- Expiry on sign: a sign call by an operator at a block number above
\* the request's expires_at returns RequestExpired and leaves the stored
\* status Expired; at a block number equal to expires_at the call is not
\* rejected as expired.
C10_ExpiryOnSign ==
    [][\A caller \in Operators, id \in DOMAIN Requests, approve \in BOOLEAN :
          Sign(caller, id, approve) =>
             /\ IsExpired(Requests[id]) =>
                   /\ last'.result = "RequestExpired"
                   /\ Requests'[id].status = "Expired"
             /\ block_number \in Requests[id].expires_at =>
                   last'.result # "RequestExpired"]_vars

\* C11 -- Atomic rejection: a call that returns an error leaves everything the
\* contract stores (requests and their signatures, ownership and balances,
\* histories, verified hashes, counters, configuration) as it was.
C11_AtomicRejection ==
    [][last'.result # "Ok" => UNCHANGED Storage]_vars

\* C12 -- State-machine conformance: every change of a stored request's
\* status is Pending -> Locked (an approving sign taking the quorum branch),
\* Pending -> Failed (a rejecting sign), Pending -> Expired (a sign),
\* Locked -> Completed (execute), or Failed -> Pending / Expired -> Pending
\* (recover with RetryBridge).
C12_StateMachine ==
    [][\A id \in DOMAIN Requests :
          LET old == Requests[id].status
              new == Requests'[id].status
          IN
          old # new =>
             \/ /\ old = "Pending" /\ new = "Locked"
                /\ \E caller \in Accounts : Sign(caller, id, TRUE)
             \/ /\ old = "Pending" /\ new = "Failed"
                /\ \E caller \in Accounts : Sign(caller, id, FALSE)
             \/ /\ old = "Pending" /\ new = "Expired"
                /\ \E caller \in Accounts, approve \in BOOLEAN :
                      Sign(caller, id, approve)
             \/ /\ old = "Locked" /\ new = "Completed"
                /\ \E caller \in Accounts : Execute(caller, id)
             \/ /\ old \in {"Failed", "Expired"} /\ new = "Pending"
                /\ \E caller \in Accounts : Recover(caller, id, "RetryBridge")]_vars

TokensHeld(owners, account) ==
    Cardinality({t \in DOMAIN owners : owners[t] = account})

\* C14 -- Lock/unlock round trip: in the token ledger, when recover with
\* UnlockToken or CancelBridge releases a token held by the zero account, the
\* token's owner is the request's sender again, the sender's balance of the
\* token is 1, and the sender's token count is back at its pre-lock value,
\* the number of tokens the sender holds.
C14_LockUnlockRoundTrip ==
    [][\A caller \in Accounts, id \in DOMAIN bridge_requests :
          \A action \in {"UnlockToken", "CancelBridge"} :
             (/\ recover_failed_bridge(caller, id, action)
              /\ last'.result = "Ok"
              /\ TokenIsLocked(bridge_requests[id]))
             => LET request == bridge_requests[id] IN
                /\ token_owner'[request.token_id] = request.sender
                /\ balances'[<<request.sender, request.token_id>>] = 1
                /\ owner_token_count'[request.sender] =
                      TokensHeld(token_owner', request.sender)]_vars

\* A CancelBridge has just succeeded and `id` is the request it cancelled,
\* the one request it left Failed.
JustCancelled(id) ==
    /\ last = RecoverCall("Ok", "CancelBridge")
    /\ id \in DOMAIN Requests
    /\ \A j \in DOMAIN Requests : Requests[j].status = "Failed" <=> j = id

\* C15 -- CancelBridge is permanent: a request that a successful CancelBridge
\* has left Failed stays Failed; in particular no call that follows the
\* CancelBridge changes its status, and in the token ledger the cancelled
\* request's token is not left with the zero account.
C15_CancelPermanent ==
    [][\A id \in RequestIds :
          /\ JustCancelled(id) => Requests'[id].status = "Failed"
          /\ (JustCancelled(id) /\ contract = "token") =>
                /\ Requests[id].token_id \in DOMAIN token_owner
                /\ token_owner[Requests[id].token_id] # ZERO]_vars

\* A step of the create message, in whichever contract runs.
Create(caller, token_id, destination_chain, recipient, required_signatures, timeout_blocks) ==
    \/ initiate_bridge_multisig(caller, token_id, destination_chain,
                                recipient, required_signatures, timeout_blocks)
    \/ \E metadata \in Metadatas :
          pb_initiate_bridge_multisig(caller, token_id, destination_chain,
                                      recipient, required_signatures,
                                      timeout_blocks, metadata)

Config == IF contract = "token" THEN bridge_config ELSE pb_config

RequestCounter == IF contract = "token" THEN bridge_request_counter
                                        ELSE pb_request_counter

\* The creation preconditions that fail for this call, each named by the
\* error it is to produce.  Ownership and compliance are facts of the token
\* ledger; the bridge contract stores neither.
CreateFailures(caller, token_id, destination_chain, required_signatures) ==
    {e \in {"BridgePaused", "InvalidChain", "InsufficientSignatures",
            "Unauthorized", "ComplianceFailed", "DuplicateBridgeRequest"} :
        \/ e = "BridgePaused" /\ Config.emergency_pause
        \/ e = "InvalidChain"
              /\ destination_chain \notin Config.supported_chains
        \/ e = "InsufficientSignatures"
              /\ \/ required_signatures < Config.min_signatures_required
                 \/ required_signatures > Config.max_signatures_required
        \/ e = "Unauthorized" /\ contract = "token"
              /\ \/ token_id \notin DOMAIN token_owner
                 \/ token_owner[token_id] # caller
        \/ e = "ComplianceFailed" /\ contract = "token"
              /\ \/ token_id \notin DOMAIN compliance_flags
                 \/ ~compliance_flags[token_id].verified
        \/ e = "DuplicateBridgeRequest"
              /\ \E j \in DOMAIN Requests :
                    Requests[j].token_id = token_id /\ Active(Requests[j])}

\* C16 -- Creation preconditions: create returns Ok, storing a new Pending
\* request with no signatures, exactly when the pause flag is clear, the
\* chain is supported, required_signatures is within [min, max], the caller
\* owns the token, the token's compliance is verified and the token has no
\* active request; when exactly one of these fails, create returns that
\* precondition's error.
C16_CreationPreconditions ==
    [][\A caller \in Accounts, token_id \in TokenIds,
          destination_chain \in ChainInputs, recipient \in Recipients,
          required_signatures \in RequiredInputs, timeout_blocks \in Timeouts :
          Create(caller, token_id, destination_chain, recipient,
                 required_signatures, timeout_blocks)
          => LET failures == CreateFailures(caller, token_id,
                                            destination_chain,
                                            required_signatures)
                 id == RequestCounter + 1
             IN
             /\ last'.result = "Ok" <=> failures = {}
             /\ last'.result = "Ok" =>
                   /\ id \notin DOMAIN Requests
                   /\ id \in DOMAIN Requests'
                   /\ Requests'[id].status = "Pending"
                   /\ Requests'[id].signatures = <<>>
             /\ Cardinality(failures) = 1 => last'.result \in failures]_vars

\* C17 -- Execute preconditions: execute returns Ok exactly when the caller
\* is an operator and the request is stored with status Locked; an
\* operator's call on an unknown id or on a request that is not Locked
\* returns InvalidRequest; a call that does not return Ok adds no history
\* entry and no verified hash.
C17_ExecutePreconditions ==
    [][\A caller \in Accounts, id \in RequestIds :
          Execute(caller, id) =>
             LET locked == /\ id \in DOMAIN Requests
                           /\ Requests[id].status = "Locked"
             IN
             /\ last'.result = "Ok" <=> (caller \in Operators /\ locked)
             /\ (caller \in Operators /\ ~locked) =>
                   last'.result = "InvalidRequest"
             /\ last'.result # "Ok" =>
                   /\ History' = History
                   /\ Verified' = Verified
                   /\ Requests' = Requests]_vars

\* The case of C17: an operator's execute has just been rejected with
\* InvalidRequest on a stored request that is Pending, and nothing has been
\* added to the histories or the verified hashes.
C17_Witness ==
    /\ last = Call("execute", "InvalidRequest")
    /\ \E id \in DOMAIN Requests :
          /\ Requests[id].status = "Pending"
          /\ Len(Requests[id].signatures) = 1
    /\ HistoryTotal(History) = 0
    /\ Verified = {}

\* C18 -- Operator authorization: a sign or execute call by an account that
\* is not in the operator set when it calls (never added, or removed since)
\* returns Unauthorized, whatever the request id, and changes nothing; a sign
\* call that changes a signature list appends its caller, an operator at
\* that time.
C18_OperatorAuthorization ==
    [][\A caller \in Accounts, id \in RequestIds :
          /\ \A approve \in BOOLEAN :
                Sign(caller, id, approve) =>
                   /\ caller \notin Operators =>
                         /\ last'.result = "Unauthorized"
                         /\ UNCHANGED Storage
                   /\ (/\ id \in DOMAIN Requests
                       /\ Requests'[id].signatures # Requests[id].signatures)
                      => /\ caller \in Operators
                         /\ Requests'[id].signatures =
                               Append(Requests[id].signatures, caller)
          /\ Execute(caller, id) =>
                (caller \notin Operators =>
                    /\ last'.result = "Unauthorized"
                    /\ UNCHANGED Storage)]_vars

\* The case of C18: a sign call has just been rejected as Unauthorized while
\* an account that signed a request earlier is no longer an operator.
C18_Witness ==
    /\ last = Call("sign", "Unauthorized")
    /\ \E id \in DOMAIN Requests :
          \E i \in 1..Len(Requests[id].signatures) :
             Requests[id].signatures[i] \notin Operators

\* C19 -- Monotonic ids: the stored requests are numbered 1..counter, each
\* under its own id; a successful create advances the counter by one and
\* stores its request under the new counter value, leaving the earlier
\* requests in place; a rejected create and every other call leave the
\* counter and the set of ids as they were.
C19_MonotonicIds ==
    [][/\ DOMAIN Requests' = 1..RequestCounter'
       /\ \A id \in DOMAIN Requests' : Requests'[id].request_id = id
       /\ IF last'.op = "create" /\ last'.result = "Ok"
          THEN /\ RequestCounter' = RequestCounter + 1
               /\ \A id \in DOMAIN Requests : Requests'[id] = Requests[id]
               /\ Requests'[RequestCounter'].status = "Pending"
          ELSE /\ RequestCounter' = RequestCounter
               /\ DOMAIN Requests' = DOMAIN Requests]_vars

\* The case of C19: the second successful create has just stored request 2
\* next to request 1.
C19_Witness ==
    /\ last = Call("create", "Ok")
    /\ RequestCounter = 2
    /\ DOMAIN Requests = {1, 2}
    /\ Requests[2].status = "Pending"
    /\ Requests[2].signatures = <<>>

\* monitor_bridge_status(request_id).signatures_collected
signatures_collected(request) == Len(request.signatures) % 256

\* No identity occurs twice in the sequence.
Distinct(seq) == \A i, j \in 1..Len(seq) : seq[i] = seq[j] => i = j

\* C20 as stated -- Signer list discipline: no signature list holds an
\* identity twice, a successful sign appends exactly its caller, and every
\* sign by an operator already in the list returns AlreadySigned.
C20_SignerDiscipline_AsStated ==
    [][/\ \A id \in DOMAIN Requests' : Distinct(Requests'[id].signatures)
       /\ \A caller \in Operators, id \in DOMAIN Requests,
             approve \in BOOLEAN :
             Sign(caller, id, approve) =>
                /\ last'.result = "Ok" =>
                      Requests'[id].signatures =
                         Append(Requests[id].signatures, caller)
                /\ (\E i \in 1..Len(Requests[id].signatures) :
                       Requests[id].signatures[i] = caller)
                   => last'.result = "AlreadySigned"]_vars

\* C20 -- Signer list discipline: no signature list holds an identity twice;
\* a new request reports 0 signatures collected; a successful sign appends
\* exactly its caller at the end, raising the reported count by one; a sign
\* by an operator already in the list leaves the list as it is and returns
\* AlreadySigned, or RequestExpired when the request's deadline has passed.
C20_SignerDiscipline ==
    [][/\ \A id \in DOMAIN Requests' :
             /\ Distinct(Requests'[id].signatures)
             /\ id \notin DOMAIN Requests =>
                   signatures_collected(Requests'[id]) = 0
       /\ \A caller \in Operators, id \in DOMAIN Requests,
             approve \in BOOLEAN :
             Sign(caller, id, approve) =>
                /\ last'.result = "Ok" =>
                      /\ Requests'[id].signatures =
                            Append(Requests[id].signatures, caller)
                      /\ signatures_collected(Requests'[id]) =
                            signatures_collected(Requests[id]) + 1
                /\ (\E i \in 1..Len(Requests[id].signatures) :
                       Requests[id].signatures[i] = caller)
                   => /\ Requests'[id].signatures = Requests[id].signatures
                      /\ last'.result =
                            IF IsExpired(Requests[id]) THEN "RequestExpired"
                                                       ELSE "AlreadySigned"]_vars

\* The case of C20: a second sign by an operator already in a list of two
\* signatures has just been rejected with AlreadySigned.
C20_Witness ==
    /\ last = Call("sign", "AlreadySigned")
    /\ \E id \in DOMAIN Requests :
          /\ Len(Requests[id].signatures) = 2
          /\ Distinct(Requests[id].signatures)
          /\ ~IsExpired(Requests[id])

\* The accounts, chains and hashes a receive_bridged_token call may name.
MintChains == SupportedChains \ {CurrentChainId}

C22_BurnForReturn ==
    [][\A caller \in Accounts, token_id \in AllTokenIds,
          destination_chain \in MintChains, recipient \in Recipients :
          burn_bridged_token(caller, token_id, destination_chain, recipient)
          => LET key == <<destination_chain, token_id>> IN
             /\ last'.result = "Ok" =>
                   /\ token_id \in DOMAIN token_owner
                   /\ token_owner[token_id] = caller
                   /\ key \in DOMAIN bridged_tokens
                   /\ bridged_tokens[key].status = "Completed"
                   /\ token_id \notin DOMAIN token_owner'
                   /\ balances'[<<caller, token_id>>] = 0
                   /\ total_supply' = total_supply - 1
                   /\ bridged_tokens'[key].status = "Locked"
             /\ last'.result # "Ok" => UNCHANGED Storage
      ]_vars

\* A token was burned: its bridged record went from Completed to Locked.
C22_Witness ==
    /\ last = Call("burn", "Ok")
    /\ \E key \in DOMAIN bridged_tokens :
          /\ bridged_tokens[key].status = "Locked"
          /\ key[2] \notin DOMAIN token_owner

\* The token is in custody: the quorum branch of sign gave it to the zero
\* address and no recovery action has given it back.
InCustody(token_id) ==
    /\ token_id \in DOMAIN token_owner
    /\ token_owner[token_id] = ZERO

\* What the ledger records about who holds the token: its owner-of-record
\* and every account's balance of it.
Holdings(token_id) ==
    <<token_owner[token_id],
      [a \in Accounts \cup {ZERO} |-> balances[<<a, token_id>>]]>>

\* C23 -- Custody means non-transferable: while a token of the token ledger
\* is in custody, a transfer_from of it returns an error, and no
\* safe_batch_transfer_from call changes its owner-of-record or any
\* account's balance of it.
C23_CustodyNonTransferable ==
    [][\A token_id \in TokenIds :
          InCustody(token_id) =>
             /\ \A caller \in Accounts, from \in Accounts \cup {ZERO},
                   to \in Accounts :
                   transfer_from(caller, from, to, token_id)
                   => last'.result # "Ok"
             /\ last'.op = "safe_batch_transfer_from"
                => Holdings(token_id)' = Holdings(token_id)
      ]_vars

\* A step of one of the four admin messages made by `caller`, in whichever
\* contract runs.
AdminCall(caller) ==
    \/ \E operator \in Accounts :
          \/ add_bridge_operator(caller, operator)
          \/ remove_bridge_operator(caller, operator)
          \/ pb_add_bridge_operator(caller, operator)
          \/ pb_remove_bridge_operator(caller, operator)
    \/ \E paused \in BOOLEAN :
          \/ set_emergency_pause(caller, paused)
          \/ pb_set_emergency_pause(caller, paused)
    \/ \E config \in ConfigInputs :
          \/ update_bridge_config(caller, config)
          \/ pb_update_config(caller, config)

\* C24 -- Admin gating: the deployer is the admin and the only operator when
\* the contract is constructed; adding or removing an operator, setting the
\* emergency-pause flag and replacing the bridge configuration return Ok
\* exactly when the caller is the admin; any other caller gets Unauthorized
\* and the operator set and the configuration stay as they were.
C24_AdminGating ==
    /\ Admin = Deployer
    /\ Operators = {Deployer}
    /\ [][\A caller \in Accounts :
             AdminCall(caller) =>
                /\ last'.result = "Ok" <=> caller = Admin
                /\ caller # Admin =>
                      /\ last'.result = "Unauthorized"
                      /\ Operators' = Operators
                      /\ Config' = Config
         ]_vars

\* A non-admin was refused a configuration change after the admin had
\* paused the bridge and dropped an operator.
C24_Witness ==
    /\ last = Call("update_config", "Unauthorized")
    /\ Config.emergency_pause
    /\ Operators = {}

\* The fields of a request that are given at creation.
Immutable(request) ==
    [request_id |-> request.request_id,
     token_id |-> request.token_id,
     source_chain |-> request.source_chain,
     destination_chain |-> request.destination_chain,
     sender |-> request.sender,
     recipient |-> request.recipient,
     required_signatures |-> request.required_signatures,
     created_at |-> request.created_at,
     expires_at |-> request.expires_at,
     metadata |-> request.metadata]

\* C25 -- Request immutability: a stored request is never deleted, and every
\* step (sign, execute, recover, and the admin's messages among them) leaves
\* its id, asset id, source and destination chain, sender, recipient,
\* requiredSignatures, createdAt, expiresAt and metadata snapshot as they
\* were; a successful create stores under the next id the values of its
\* call: the asset, the destination, the caller as sender, the recipient,
\* the threshold, the current block as createdAt and that block plus the
\* timeout, if one was given, as expiresAt.
C25_RequestImmutability ==
    [][/\ \A id \in DOMAIN Requests :
             /\ id \in DOMAIN Requests'
             /\ Immutable(Requests'[id]) = Immutable(Requests[id])
       /\ \A caller \in Requesters, token_id \in TokenIds,
             destination_chain \in ChainInputs, recipient \in Recipients,
             required_signatures \in RequiredInputs,
             timeout_blocks \in Timeouts :
             (/\ Create(caller, token_id, destination_chain, recipient,
                        required_signatures, timeout_blocks)
              /\ last'.result = "Ok")
             => LET id == RequestCounter'
                    request == Requests'[id]
                IN /\ id \notin DOMAIN Requests
                   /\ request.request_id = id
                   /\ request.token_id = token_id
                   /\ request.source_chain = CurrentChainId
                   /\ request.destination_chain = destination_chain
                   /\ request.sender = caller
                   /\ request.recipient = recipient
                   /\ request.required_signatures = required_signatures
                   /\ request.created_at = block_number
                   /\ request.expires_at =
                         {block_number + blocks : blocks \in timeout_blocks}
                   /\ contract = "token" =>
                         request.metadata = token_properties[token_id]
      ]_vars

\* A request with a deadline was retried after the admin had dropped its
\* destination chain from the configuration: it still names that chain and
\* that deadline.
C25_Witness ==
    /\ last = RecoverCall("Ok", "RetryBridge")
    /\ 1 \in DOMAIN Requests
    /\ Requests[1].destination_chain \notin Config.supported_chains
    /\ Requests[1].expires_at # {}

\* The request this step executed: it went from Locked to Completed.
Executed(id) ==
    /\ id \in DOMAIN Requests
    /\ Requests[id].status = "Locked"
    /\ Requests'[id].status = "Completed"

\* C26 -- History is append-only: a step changes an account's bridge history
\* only when it is a successful execute of a request whose sender is that
\* account, and then the new history is the old one with one entry, for
\* that request's token, added at the end; a successful execute changes the
\* history of exactly one account.
C26_HistoryAppendOnly ==
    [][/\ \A a \in Accounts :
             History'[a] # History[a] =>
                /\ last'.op = "execute"
                /\ last'.result = "Ok"
                /\ Len(History'[a]) = Len(History[a]) + 1
                /\ SubSeq(History'[a], 1, Len(History[a])) = History[a]
                /\ \E id \in RequestIds :
                      /\ Executed(id)
                      /\ Requests[id].sender = a
                      /\ History'[a][Len(History'[a])].token_id =
                            Requests[id].token_id
                      /\ History'[a][Len(History'[a])].sender = a
       /\ (last'.op = "execute" /\ last'.result = "Ok") =>
             Cardinality({a \in Accounts : History'[a] # History[a]}) = 1
      ]_vars

\* A second record was appended to a history that already held one.
C26_Witness ==
    /\ last = Call("execute", "Ok")
    /\ \E a \in Accounts : Len(History[a]) = MaxExecutes + 1

\* C27 -- Monotonic transaction ids: the BridgeTransaction a successful
\* execute appends has a transaction_id strictly greater than the
\* transaction_id of every record already in any account's history.
C27_MonotonicTransactionIds ==
    [][\A a \in Accounts :
          Len(History'[a]) > Len(History[a]) =>
             \A b \in Accounts : \A j \in 1..Len(History[b]) :
                History'[a][Len(History'[a])].transaction_id
                   > History[b][j].transaction_id
      ]_vars

\* The events of one kind the last call emitted for the request.
EventsOf(emitted, kind, request_id) ==
    {i \in 1..Len(emitted) :
        /\ emitted[i].kind = kind
        /\ emitted[i].request_id = request_id}

\* The call emitted exactly one event of the kind, and it is for the request.
EmitsOne(emitted, kind, request_id) ==
    /\ Cardinality(EventsOf(emitted, kind, request_id)) = 1
    /\ Cardinality({i \in 1..Len(emitted) : emitted[i].kind = kind}) = 1

\* C28 -- Notifications: in both contracts a successful create emits exactly
\* one BridgeRequestCreated, a successful sign exactly one
\* BridgeRequestSigned with the number of signatures collected so far and
\* the number required, a successful execute exactly one BridgeExecuted with
\* the verified hash and a successful recover exactly one BridgeRecovered
\* naming the action, each carrying the request id; and a sign that rejects,
\* which takes the request to Failed, also emits exactly one BridgeFailed
\* for the request.
C28_Notifications ==
    [][/\ (last'.op = "create" /\ last'.result = "Ok") =>
             EmitsOne(events', "BridgeRequestCreated", RequestCounter')
       /\ \A caller \in Accounts, id \in RequestIds, approve \in BOOLEAN :
             (Sign(caller, id, approve) /\ last'.result = "Ok") =>
                /\ EmitsOne(events', "BridgeRequestSigned", id)
                /\ \A i \in EventsOf(events', "BridgeRequestSigned", id) :
                      /\ events'[i].signatures_collected =
                            Len(Requests'[id].signatures) % 256
                      /\ events'[i].signatures_required =
                            Requests'[id].required_signatures
                /\ (~approve /\ Requests'[id].status = "Failed") =>
                      EmitsOne(events', "BridgeFailed", id)
       /\ \A caller \in Accounts, id \in RequestIds :
             (Execute(caller, id) /\ last'.result = "Ok") =>
                /\ EmitsOne(events', "BridgeExecuted", id)
                /\ \A i \in EventsOf(events', "BridgeExecuted", id) :
                      events'[i].transaction_hash \in Verified'
       /\ \A caller \in Accounts, id \in RequestIds,
             action \in RecoveryActions :
             (Recover(caller, id, action) /\ last'.result = "Ok") =>
                /\ EmitsOne(events', "BridgeRecovered", id)
                /\ \A i \in EventsOf(events', "BridgeRecovered", id) :
                      events'[i].recovery_action = action
      ]_vars

\* C29 -- Mint effect: a successful receive_bridged_token allocates a token
\* id greater than the counter and than every id that has an owner or a
\* stored property, makes the recipient its owner-of-record with balance 1,
\* stores the supplied metadata as given, marks its compliance verified with
\* type "Bridge", and raises total supply by one.
C29_MintEffect ==
    [][\A caller \in Accounts, source_chain \in MintChains,
          original_token_id \in TokenIds, recipient \in Recipients,
          metadata \in Metadatas, transaction_hash \in HashInputs :
          (/\ receive_bridged_token(caller, source_chain, original_token_id,
                                    recipient, metadata, transaction_hash)
           /\ last'.result = "Ok")
          => LET id == token_counter' IN
             /\ id > token_counter
             /\ \A t \in DOMAIN token_owner \cup DOMAIN token_properties
                         \cup DOMAIN compliance_flags : id > t
             /\ token_owner'[id] = recipient
             /\ balances'[<<recipient, id>>] = 1
             /\ token_properties'[id] = metadata
             /\ compliance_flags'[id].verified
             /\ compliance_flags'[id].compliance_type = "Bridge"
             /\ total_supply' = total_supply + 1
             /\ \A t \in DOMAIN token_owner : token_owner'[t] = token_owner[t]
      ]_vars

\* The minted token is owned by the recipient and carries the Bridge
\* compliance type, beside the registered token with its KYC type.
C29_Witness ==
    /\ last = Call("receive", "Ok")
    /\ token_owner[token_counter] \in Recipients
    /\ compliance_flags[token_counter].compliance_type = "Bridge"
    /\ compliance_flags[1].compliance_type = "KYC"
    /\ total_supply = MaxTokens + MaxMints

\* get_bridge_status(token_id): the record for the first supported chain that
\* has a bridged record of the token, or None (the empty set).  The loop
\* follows the order of the supported_chains vector; the configurations
\* installed here list their chains in ascending order.
get_bridge_status(token_id) ==
    LET found == {chain_id \in bridge_config.supported_chains :
                     <<chain_id, token_id>> \in DOMAIN bridged_tokens}
    IN IF found = {} THEN {}
       ELSE LET first == CHOOSE c \in found : \A d \in found : c <= d
                bridged_info == bridged_tokens[<<first, token_id>>]
            IN {[is_locked |-> bridged_info.status \in {"Locked", "InTransit"},
                 source_chain |-> {bridged_info.original_chain},
                 destination_chain |-> {bridged_info.destination_chain},
                 locked_at |-> {bridged_info.bridged_at},
                 bridge_request_id |-> {},
                 status |-> bridged_info.status]}

\* C30 -- Bridge status after execute: in the token ledger, in the state a
\* successful execute of a request for token t leaves, get_bridge_status(t)
\* returns a record, and its is_locked is true.
C30_StatusAfterExecute ==
    [][\A id \in RequestIds :
          (/\ contract = "token"
           /\ last'.op = "execute"
           /\ last'.result = "Ok"
           /\ Executed(id))
          => /\ get_bridge_status(Requests[id].token_id)' # {}
             /\ \A bridge_status \in get_bridge_status(Requests[id].token_id)' :
                   bridge_status.is_locked
      ]_vars

\* C31 -- Gas estimate: estimate_bridge_gas changes no state; for a
\* destination chain that create accepts as supported it returns a positive
\* value, which in the token ledger, for an existing token, equals the
\* configured per-bridge base cost plus 100 per character of the legal
\* description; for a chain that create does not accept it fails with
\* InvalidChain.
C31_GasEstimate ==
    [][\A token_id \in TokenIds, chain \in ChainInputs :
         (\/ estimate_bridge_gas(token_id, chain)
          \/ pb_estimate_bridge_gas(token_id, chain))
         => /\ Storage' = Storage
            /\ (/\ chain \in Config.supported_chains
                /\ contract = "token" => token_id \in DOMAIN token_owner)
               => /\ last'.result = "Ok"
                  /\ last'.value > 0
                  /\ contract = "token" =>
                        last'.value = Config.gas_limit_per_bridge
                           + GasPerCharacter * token_properties[token_id]
            /\ chain \notin Config.supported_chains
               => last'.result = "InvalidChain"]_vars

\* C32 -- At-most-once execution: execute succeeds at most once for each
\* request id, so in every reachable state the histories hold together no
\* more BridgeTransaction entries than there are requests created.
C32_AtMostOnceExecution ==
    HistoryTotal(History) <= Cardinality(DOMAIN Requests)

\* The tokens receive_bridged_token has minted: it marks their compliance
\* record with the type "Bridge", and no message removes the record.
MintedTokens ==
    {t \in DOMAIN compliance_flags :
        compliance_flags[t].compliance_type = "Bridge"}

\* C33 -- No mint replay: receive_bridged_token succeeds at most once for
\* each verified transaction hash, so in every reachable state the ledger has
\* minted no more tokens than it holds verified hashes.
C33_NoMintReplay ==
    Cardinality(MintedTokens) <= Cardinality(verified_bridge_hashes)

\* C34 -- Owner at lock is the sender: in the token ledger the owner-of-record
\* of a token does not change while a request for it stays Pending, and at the
\* sign call that reaches quorum the owner-of-record, the account whose token
\* is locked, is the request's sender, the account UnlockToken and
\* CancelBridge restore it to.
C34_OwnerAtLockIsSender ==
    [][contract = "token" =>
         /\ \A id \in DOMAIN bridge_requests :
               (/\ bridge_requests[id].status = "Pending"
                /\ bridge_requests'[id].status = "Pending")
               => /\ bridge_requests[id].token_id \in DOMAIN token_owner'
                  /\ token_owner'[bridge_requests[id].token_id]
                        = token_owner[bridge_requests[id].token_id]
         /\ \A caller \in Accounts, id \in RequestIds, approve \in BOOLEAN :
               (/\ sign_bridge_request(caller, id, approve)
                /\ last'.lock
                /\ bridge_requests[id].status = "Pending")
               => token_owner[bridge_requests[id].token_id]
                     = bridge_requests[id].sender]_vars

\* self.owner_token_count.get(&owner).unwrap_or(0)
balance_of(owner) == owner_token_count[owner]

\* C35 -- Token-count consistency: in every reachable state of the token
\* ledger balance_of(a) is, for every account a, the number of tokens whose
\* owner-of-record is a.
C35_TokenCountConsistency ==
    contract = "token" =>
        \A a \in Accounts : balance_of(a) = TokensHeld(token_owner, a)

\* C36 -- Locked implies quorum count: in every reachable state a request
\* with status Locked has at least required_signatures entries in its signer
\* list, and no execute call has returned InsufficientSignatures.
C36_LockedImpliesQuorumCount ==
    /\ \A id \in DOMAIN Requests :
          Requests[id].status = "Locked"
          => Len(Requests[id].signatures) >= Requests[id].required_signatures
    /\ ~(last.op = "execute" /\ last.result = "InsufficientSignatures")

\* An execute has just passed the re-check and returned Ok while another
\* request is Locked with exactly the number of signatures it requires.
C36_Witness ==
    /\ last.op = "execute"
    /\ last.result = "Ok"
    /\ \E id \in DOMAIN Requests :
          /\ Requests[id].status = "Locked"
          /\ Len(Requests[id].signatures) = Requests[id].required_signatures

\* C37 -- Retry makes progress: once RetryBridge has returned a request to
\* Pending, recovered from Failed or from Expired, an approving sign call by
\* an operator succeeds, and it locks the request when it brings the count to
\* required_signatures.  Stated for the sign call that follows the retry.
C37_RetryMakesProgress ==
    [][\A caller \in Accounts, id \in RequestIds :
         (/\ last.op = "recover"
          /\ last.result = "Ok"
          /\ last.action = "RetryBridge"
          /\ id \in DOMAIN Requests
          /\ Requests[id].status = "Pending"
          /\ Requests[id].signatures = <<>>
          /\ caller \in Operators
          /\ Sign(caller, id, TRUE))
         => /\ last'.result = "Ok"
            /\ Requests'[id].signatures = <<caller>>
            /\ Requests'[id].status =
                  IF Requests[id].required_signatures <= 1
                  THEN "Locked" ELSE "Pending"]_vars

\* Everything a call can read or write except the pause flag: the block
\* number and the storage of both contracts, with the flag blanked.
Unpaused(config) == [config EXCEPT !.emergency_pause = FALSE]

PauseBlind ==
    <<block_number, Unpaused(bridge_config), Unpaused(pb_config),
      token_owner, owner_token_count, balances, token_properties,
      compliance_flags, bridged_tokens, bridge_operators, bridge_requests,
      bridge_transactions, verified_bridge_hashes, bridge_request_counter,
      total_supply, token_counter, admin, token_approvals,
      operator_approvals, pb_bridge_requests, pb_bridge_history,
      pb_verified_transactions, pb_bridge_operators, pb_request_counter,
      pb_transaction_counter, pb_admin, pb_chain_info>>

\* The step to the state that differs from this one in the pause flag only:
\* the admin sets the flag to its negation.
FlipPause ==
    \/ set_emergency_pause(admin, ~bridge_config.emergency_pause)
    \/ pb_set_emergency_pause(pb_admin, ~pb_config.emergency_pause)

\* The call `A`, just made, returns the same result, emits the same events
\* and leaves the same storage when it is made in the state that differs in
\* the pause flag only.
SameWhenFlipped(A) ==
    \A post \in {<<last', events', PauseBlind'>>} :
       ENABLED (/\ FlipPause
                /\ (ENABLED (A /\ <<last', events', PauseBlind'>> = post))')

\* C38 -- Pause gates creation only: sign, execute and recover return the
\* same result and make the same state change in two states that differ only
\* in the emergency-pause flag; create never succeeds while the flag is set,
\* and a create that succeeds with the flag clear returns BridgePaused, and
\* writes nothing, with the flag set.
C38_PauseGatesCreationOnly ==
    [][\A caller \in Accounts, id \in RequestIds :
          /\ \A approve \in BOOLEAN :
                Sign(caller, id, approve)
                => SameWhenFlipped(Sign(caller, id, approve))
          /\ Execute(caller, id) => SameWhenFlipped(Execute(caller, id))
          /\ \A action \in RecoveryActions :
                Recover(caller, id, action)
                => SameWhenFlipped(Recover(caller, id, action))
          /\ \A token_id \in TokenIds, chain \in ChainInputs,
                recipient \in Recipients, required \in RequiredInputs,
                timeout \in Timeouts :
                Create(caller, token_id, chain, recipient, required, timeout)
                => /\ Config.emergency_pause => last'.result # "Ok"
                   /\ last'.result = "Ok"
                      => ENABLED
                           (/\ FlipPause
                            /\ (ENABLED
                                  (/\ Create(caller, token_id, chain,
                                             recipient, required, timeout)
                                   /\ last'.result = "BridgePaused"
                                   /\ Storage' = Storage))')]_vars

\* A sign call has just reached quorum and locked the request while the
\* bridge is paused.
C38_Witness ==
    /\ Config.emergency_pause
    /\ last.op = "sign"
    /\ last.result = "Ok"
    /\ last.lock

\* C39 -- No deadline without a timeout: a request created with no timeout
\* window has no expires_at, and a request without expires_at keeps none;
\* whatever the block number, sign never returns RequestExpired for it and
\* its status never becomes Expired.
C39_NoDeadlineWithoutTimeout ==
    [][/\ \A caller \in Accounts, token_id \in TokenIds,
             chain \in ChainInputs, recipient \in Recipients,
             required \in RequiredInputs :
             (/\ Create(caller, token_id, chain, recipient, required, {})
              /\ last'.result = "Ok")
             => Requests'[RequestCounter'].expires_at = {}
       /\ \A id \in DOMAIN Requests :
             Requests[id].expires_at = {}
             => /\ Requests'[id].expires_at = {}
                /\ Requests'[id].status # "Expired"
                /\ \A caller \in Accounts, approve \in BOOLEAN :
                      Sign(caller, id, approve)
                      => last'.result # "RequestExpired"]_vars

\* A sign call has just been accepted, at a later block than the one it was
\* created in, on a request created without a timeout.
C39_Witness ==
    /\ last.op = "sign"
    /\ last.result = "Ok"
    /\ \E id \in DOMAIN Requests :
          /\ Requests[id].expires_at = {}
          /\ block_number > Requests[id].created_at
          /\ Len(Requests[id].signatures) > 0

\* The bridge call `B`, made in the bridge in this same state, returns what
\* the token ledger's call just returned and leaves request `id` of the
\* bridge with the status and the signer list the ledger's request now has.
BridgeAgrees(B, id) ==
    \A post \in {<<last'.result, bridge_requests'[id].status,
                   bridge_requests'[id].signatures>>} :
       ENABLED (/\ SwitchContract("bridge")
                /\ (ENABLED (/\ B
                             /\ <<last'.result,
                                  pb_bridge_requests'[id].status,
                                  pb_bridge_requests'[id].signatures>>
                                   = post))')

\* C40 -- The two copies agree: while the standalone bridge and the token
\* ledger hold the same request after the same calls, a sign, execute or
\* recover call by the same caller at the same block number returns the same
\* result in both and leaves the same request status and signer list.
C40_TwoCopiesAgree ==
    [][\A caller \in Accounts, id \in RequestIds :
          (Sync /\ id \in DOMAIN bridge_requests)
          => /\ \A approve \in BOOLEAN :
                   sign_bridge_request(caller, id, approve)
                   => BridgeAgrees(
                         pb_sign_bridge_request(caller, id, approve), id)
             /\ execute_bridge(caller, id)
                => BridgeAgrees(pb_execute_bridge(caller, id), id)
             /\ \A action \in RecoveryActions :
                   recover_failed_bridge(caller, id, action)
                   => BridgeAgrees(
                         pb_recover_failed_bridge(caller, id, action), id)]_vars

====
